---- MODULE Spec2Model ----
(***************************************************************************)
(* OPC UA binding layer of the OpenPLC runtime                             *)
(* (webserver/core/opcua.cpp).                                             *)
(*                                                                         *)
(* Threads:                                                                *)
(*   "scan"  - the PLC main loop; it refreshes the process image under     *)
(*             bufferLock and calls opcuaUpdateNodeValues() once a cycle,  *)
(*             outside bufferLock.                                         *)
(*   "opcua" - runs opcuaStartServer(): builds the address space, then the *)
(*             iterate loop, inside which client Read and Write requests   *)
(*             are served and the node's onWrite callback is run.          *)
(*                                                                         *)
(* The node value kept by the OPC UA stack is the cache every client read  *)
(* is served from (addVariableNode installs cb.onRead = NULL: "reads are   *)
(* handled by periodic updates"); it is the shadow of the image cell.      *)
(***************************************************************************)
EXTENDS Integers, Sequences, FiniteSets, TLC

\* ------------------------------------------------------------------ bounds
\* largest value a cell or a written variant takes
MaxVal == 1

\* ------------------------------------------------------- program constants
\* static UA_UInt32 nextId = 4000000;
FirstNodeId == 4000000
\* index bound of every process-image directory (ladder.h), used by the resolver
BUFFER_SIZE == 1024

Val == 0..MaxVal
\* marks a cell publish() has not copied yet
NoVal == MaxVal + 1

T_SCAN == "scan"
T_OPC  == "opcua"
Threads == {T_SCAN, T_OPC}
NoThread == "none"

NULL == "NULL"

\* UA_TYPES[] entries the bridge distinguishes
UA_TYPES == {"Boolean", "Byte", "SByte", "Int16", "Int32", "Int64",
             "UInt16", "UInt32", "UInt64", "Float", "Double"}

UA_STATUSCODE_GOOD == "Good"
UA_STATUSCODE_BADTYPEMISMATCH == "BadTypeMismatch"
UA_STATUSCODE_BADINTERNALERROR == "BadInternalError"
UA_STATUSCODE_BADNODEIDUNKNOWN == "BadNodeIdUnknown"

\* ------------------------------------------------------------ process image
\* A slot is <<area, width, index, bit>>; bit = -1 when the width is not X.
\* Allocated is the set of slots the loaded program allocated (non-null
\* directory cells).
Allocated == { <<"Q", "X", 0, 1>>, <<"I", "X", 0, 0>> }

\* LOCATED_VARIABLES.h, one record per line: marker = the line contains
\* "__LOCATED_VAR(", n = number of comma separated tokens, name = the
\* characters of the second token.
Manifest ==
  << [marker |-> TRUE,  n |-> 6, iec |-> "BOOL",
      name |-> <<"_", "_", "Q", "X", "0", "_", "1">>,
      area |-> "Q", typ |-> "X", idx1 |-> 0, idx2 |-> 1],
     [marker |-> TRUE,  n |-> 5, iec |-> "UINT",
      name |-> <<"_", "_", "I", "W", "5">>,
      area |-> "I", typ |-> "W", idx1 |-> 5, idx2 |-> 0],
     [marker |-> FALSE, n |-> 0, iec |-> "", name |-> << >>,
      area |-> "", typ |-> "", idx1 |-> 0, idx2 |-> 0],
     [marker |-> TRUE,  n |-> 6, iec |-> "BOOL",
      name |-> <<"_", "_", "I", "X", "0", "_", "0">>,
      area |-> "I", typ |-> "X", idx1 |-> 0, idx2 |-> 0] >>

\* a mutated table that gives a word the signed 16-bit type
WidthType_Int16(typ) ==
  CASE typ = "X" -> "Boolean"
    [] typ = "B" -> "Byte"
    [] typ = "W" -> "Int16"
    [] typ = "D" -> "UInt32"
    [] typ = "L" -> "UInt64"
    [] typ = "R" -> "Float"
    [] typ = "F" -> "Double"
    [] OTHER     -> NULL

\* type the resolver gives a width glyph
WidthType(typ) ==
  CASE typ = "X" -> "Boolean"
    [] typ = "B" -> "Byte"
    [] typ = "W" -> "UInt16"
    [] typ = "D" -> "UInt32"
    [] typ = "L" -> "UInt64"
    [] typ = "R" -> "Float"
    [] typ = "F" -> "Double"
    [] OTHER     -> NULL

\* a mutated resolver that does not test the directory cell for NULL
resolvePointerIn_Unallocated(dir, area, typ, index1, idx2) ==
  LET index2 == IF typ = "X" THEN idx2 ELSE -1
      slot   == <<area, typ, index1, index2>>
      widths == IF area \in {"I", "Q"} THEN {"X", "B", "W", "D", "L", "R", "F"}
                ELSE IF area = "M" THEN {"W", "D", "L", "R", "F"}
                ELSE {}
      fail   == [ok |-> FALSE, ptr |-> NULL, type |-> NULL]
  IN  IF typ = "X" /\ (index2 < 0 \/ index2 >= 8) THEN fail
      ELSE IF typ \in widths /\ index1 >= 0 /\ index1 < BUFFER_SIZE
           THEN [ok |-> TRUE, ptr |-> slot, type |-> WidthType(typ)]
           ELSE fail

\* resolvePointerFromLocation on the token "%<area><typ><index1>[.<index2>]",
\* dir being the set of non-null cells of the image directories
resolvePointerIn(dir, area, typ, index1, idx2) ==
  LET index2 == IF typ = "X" THEN idx2 ELSE -1
      slot   == <<area, typ, index1, index2>>
      widths == IF area \in {"I", "Q"} THEN {"X", "B", "W", "D", "L", "R", "F"}
                ELSE IF area = "M" THEN {"W", "D", "L", "R", "F"}
                ELSE {}
      fail   == [ok |-> FALSE, ptr |-> NULL, type |-> NULL]
  IN  IF typ = "X" /\ (index2 < 0 \/ index2 >= 8) THEN fail
      ELSE IF typ \in widths /\ index1 >= 0 /\ index1 < BUFFER_SIZE
              /\ slot \in dir
           THEN [ok |-> TRUE, ptr |-> slot, type |-> WidthType(typ)]
           ELSE fail

\* the resolver on the directories of the loaded program
resolvePointerFromLocation(area, typ, index1, idx2) ==
  resolvePointerIn(Allocated, area, typ, index1, idx2)

\* createNodesFromLocatedVariables: the filter a line passes before the
\* resolver is tried (marker present, at least 6 tokens)
LineAccepted(l) == l.marker /\ l.n >= 6

\* lines 943-945: the display name is the name token without a leading "__"
DispName(nameTok) ==
  IF Len(nameTok) >= 2 /\ nameTok[1] = "_" /\ nameTok[2] = "_"
  THEN SubSeq(nameTok, 3, Len(nameTok))
  ELSE nameTok

\* createNodesFromLocatedVariables over the lines man[i..], the static counter
\* standing at id and the image directories holding dir: the nodes it asks
\* addVariableNode for, in file order
RECURSIVE LocatedNodesIn(_, _, _, _)
LocatedNodesIn(dir, man, i, id) ==
  IF i > Len(man) THEN << >>
  ELSE LET l == man[i]
           r == resolvePointerIn(dir, l.area, l.typ, l.idx1, l.idx2)
       IN IF LineAccepted(l) /\ r.ok
          THEN << [nodeId |-> id, variablePtr |-> r.ptr, dataType |-> r.type,
                   name |-> DispName(l.name)] >>
               \o LocatedNodesIn(dir, man, i + 1, id + 1)
          ELSE LocatedNodesIn(dir, man, i + 1, id)

\* the same over the directories of the loaded program
LocatedNodes(man, i, id) == LocatedNodesIn(Allocated, man, i, id)

VARIABLES
  g_opcua_server,   \* 0 = NULL, otherwise the id of the server instance
  g_opcua_running,
  g_node_list,      \* sequence of OpcNodeInfo, head first
  g_node_count,
  nextId,
  srvNodes,         \* address space of the instance: nodeId -> node
  image,            \* slot -> value
  bufferLock,       \* owner of bufferLock
  opcua_mutex,      \* owner of opcua_mutex
  pc,               \* thread -> program point
  loc,              \* thread -> locals
  wres,             \* status answered to the last client Write
  rd,               \* result of the last client Read
  cw,               \* history: the latest client write
  snaps,            \* history: image states of the current publish that agree
                    \*          with pubd
  pubd,             \* history: slot -> value publish copied for the node
  binding,          \* the OpcVarBinding handed to the data-source callbacks
  shadow,           \* value of the cell binding.shadowPtr points to
  dsDid,            \* history: cells the running writeVariableValue stored
  g_namespace_index,
  lpc,              \* lifecycle threads: position in opcuaStartServer / stopOpcua
  using,            \* instance a thread passed to UA_Server_run_iterate
  mine,             \* history: instance the start invocation created
  failed,           \* history: the step of the start invocation that failed
  alive,            \* server instances created and not yet deleted
  nextInst,         \* id of the next instance UA_Server_new returns
  doubleDelete,     \* history: UA_Server_delete ran on a deleted instance
  after,            \* where a thread continues after delete + NULL
  faults,           \* history: number of stack failures so far
  p_man,            \* LOCATED_VARIABLES.h handed to the parser on its own
  p_dir,            \* non-null directory cells when the parser runs on its own
  p_out,            \* history: the nodes each pass of the parser asked for
  p_i,              \* line the fgets loop reads next (0: no file open)
  p_seen,           \* int seen of createNodesFromLocatedVariables
  p_added,          \* int added of createNodesFromLocatedVariables
  q_loc,            \* location string handed to the resolver on its own
  q_res,            \* << >>, or << what the resolver returned for q_loc >>
  r_pc,             \* position of the thread inside readVariableValue
  r_ctx,            \* nodeContext argument of readVariableValue
  r_out             \* *dataValue and the status code readVariableValue returns

\* state of the data-source callbacks (readVariableValue, writeVariableValue),
\* which no node of the running server is bound to
lineVars == << p_i, p_seen, p_added >>
tokVars == << q_loc, q_res >>
readVars == << r_pc, r_ctx, r_out >>

dsVars == << binding, shadow, dsDid, p_man, p_dir, p_out, lineVars, tokVars,
             readVars >>

\* state of the lifecycle (opcuaStartServer and stopOpcua on their threads)
lifeVars == << g_namespace_index, lpc, using, mine, failed, alive, nextInst,
               doubleDelete, after, faults >>

vars == << g_opcua_server, g_opcua_running, g_node_list, g_node_count, nextId,
           srvNodes, image, bufferLock, opcua_mutex, pc, loc, wres, rd, cw,
           snaps, pubd, dsVars, lifeVars >>

NoData == [type |-> NULL, val |-> 0, scalar |-> TRUE, hasValue |-> FALSE]
NoInfo == [nodeId |-> 0, variablePtr |-> NULL, dataType |-> NULL]
NoBinding == [variablePtr |-> NULL, dataType |-> NULL, shadowPtr |-> FALSE]
NoLoc  == [it |-> 0, line |-> 0, node |-> 0, info |-> NoInfo, data |-> NoData,
           ret |-> NULL]

\* "nothing yet" values of the answer and history variables
NoRd   == [node |-> 0, hasValue |-> FALSE, val |-> 0]
NoCw   == [node |-> 0, val |-> 0, done |-> FALSE, pubStored |-> FALSE,
           pubRead |-> FALSE]

\* UA_Variant_setScalarCopy(&value, &v, type)
ScalarOf(type, v) == [type |-> type, val |-> v, scalar |-> TRUE, hasValue |-> TRUE]

\* variants a client can send in a Write request
ClientData ==
  [type : {"Boolean", "UInt16"}, val : Val, scalar : {TRUE}, hasValue : {TRUE}]
  \cup [type : {"Boolean"}, val : {0}, scalar : {FALSE}, hasValue : {TRUE}]

\* ---------------------------------------------------------- lifecycle threads
\* threads that run opcuaStartServer(port), and the thread that calls stopOpcua()
Starters == {"srvA", "srvB"}
T_CTL == "ctl"
T_CTL2 == "ctl2"
Stoppers == {T_CTL, T_CTL2}
LifeThreads == Starters \cup Stoppers

\* lifecycle variables before any start
LifeInit ==
  /\ g_namespace_index = 1
  /\ lpc = [t \in LifeThreads |-> "l_idle"]
  /\ using = [t \in Starters |-> 0]
  /\ mine = [t \in Starters |-> 0]
  /\ failed = [t \in Starters |-> "none"]
  /\ alive = {}
  /\ nextInst = 1
  /\ doubleDelete = FALSE
  /\ after = [t \in LifeThreads |-> "l_idle"]
  /\ faults = 0

\* the fgets loop, the resolver and the read callback are not run on their own
NoOut == [hasValue |-> FALSE, hasStatus |-> FALSE, status |-> NULL,
          value |-> NoData, ret |-> NULL]

LineIdle ==
  /\ p_i = 0
  /\ p_seen = 0
  /\ p_added = 0

TokIdle ==
  /\ q_loc = << >>
  /\ q_res = << >>

ReadIdle ==
  /\ r_pc = "dsr_idle"
  /\ r_ctx = NULL
  /\ r_out = NoOut

\* the parser is not run on its own
ParseIdle ==
  /\ p_man = << >>
  /\ p_dir = {}
  /\ p_out = << >>
  /\ LineIdle
  /\ TokIdle
  /\ ReadIdle

Init ==
  /\ g_opcua_server = 0
  /\ g_opcua_running = FALSE
  /\ g_node_list = << >>
  /\ g_node_count = 0
  /\ nextId = FirstNodeId
  /\ srvNodes = << >>
  /\ image \in [Allocated -> {0}]
  /\ bufferLock = NoThread
  /\ opcua_mutex = NoThread
  /\ pc = [t \in Threads |-> IF t = T_SCAN THEN "scan_idle" ELSE "opc_idle"]
  /\ loc = [t \in Threads |-> NoLoc]
  /\ wres = NULL
  /\ rd = NoRd
  /\ cw = NoCw
  /\ snaps = {}
  /\ pubd = [s \in Allocated |-> NoVal]
  /\ binding = NoBinding
  /\ shadow = 0
  /\ dsDid = {}
  /\ LifeInit
  /\ ParseIdle

\* ------------------------------------------------------------ small helpers
SetPc(t, p) == pc' = [pc EXCEPT ![t] = p]

\* publish() is between its entry check and its final unlock
Publishing ==
  pc[T_SCAN] \in {"upd_lock", "upd_read", "upd_write", "upd_unlock"}
  \/ (pc[T_SCAN] \in {"cb_enter", "cb_store", "cb_unlock"})

\* an image state agrees with every value publish() has copied so far
Agrees(img, pd) == \A b \in Allocated : pd[b] # NoVal => img[b] = pd[b]

\* History of the image states that occurred while publish() runs, kept only
\* as far as they agree with the values copied so far: snaps is empty exactly
\* when no instant of this publish() showed all the copied values together.
SnapNext(img) ==
  IF Publishing /\ Agrees(img, pubd) THEN snaps \cup {img} ELSE snaps

\* the history of a client write is dropped once publish() has both read the
\* cell and stored into the node after it
CwNorm(c) == IF c.done /\ c.pubStored /\ c.pubRead THEN NoCw ELSE c

\* ---------------------------------------------------- the consumed stack API
\* a mutated Write service that stores a variant of any type and rank
StackTypeOk_Any(node, data) == data.hasValue

\* Type check of the Write service against the attributes the node was
\* declared with (attr.dataType, attr.valueRank = UA_VALUERANK_SCALAR)
StackTypeOk(node, data) ==
  /\ data.hasValue
  /\ data.scalar
  /\ (node.dataType = "BaseDataType" \/ data.type = node.dataType)

\* ------------------------------------------------------- opcuaStartServer()
\* lines 1021-1088: refuse a double start, create the instance, go on to
\* scanAndCreateNodes
StartServer ==
  /\ pc[T_OPC] = "opc_idle"
  /\ ~g_opcua_running
  /\ g_opcua_server' = 1
  /\ srvNodes' = << >>
  /\ loc' = [loc EXCEPT ![T_OPC] = [NoLoc EXCEPT !.line = 1]]
  /\ SetPc(T_OPC, "create_nodes")
  /\ UNCHANGED lifeVars
  /\ UNCHANGED dsVars
  /\ UNCHANGED << g_opcua_running, g_node_list, g_node_count, nextId, image,
                  bufferLock, opcua_mutex, wres, rd, cw, snaps, pubd >>

\* createNodesFromLocatedVariables: one line of the manifest
CreateNodesStep ==
  /\ pc[T_OPC] = "create_nodes"
  /\ LET i == loc[T_OPC].line IN
     IF i > Len(Manifest)
     THEN /\ SetPc(T_OPC, "set_running")
          /\ UNCHANGED << loc, nextId >>
     ELSE LET l == Manifest[i]
              r == resolvePointerFromLocation(l.area, l.typ, l.idx1, l.idx2)
          IN IF LineAccepted(l) /\ r.ok
             THEN /\ nextId' = nextId + 1
                  /\ loc' = [loc EXCEPT ![T_OPC].info =
                               [nodeId |-> nextId, variablePtr |-> r.ptr,
                                dataType |-> r.type]]
                  /\ SetPc(T_OPC, "add_node")
             ELSE /\ loc' = [loc EXCEPT ![T_OPC].line = i + 1]
                  /\ UNCHANGED << pc, nextId >>
  /\ UNCHANGED lifeVars
  /\ UNCHANGED dsVars
  /\ UNCHANGED << g_opcua_server, g_opcua_running, g_node_list, g_node_count,
                  srvNodes, image, bufferLock, opcua_mutex, wres, rd, cw,
                  snaps, pubd >>

\* a mutated addVariableNode that leaves attr.dataType undeclared
AddVariableNode_NoType ==
  /\ pc[T_OPC] = "add_node"
  /\ LET info == loc[T_OPC].info IN
       /\ srvNodes' = srvNodes @@
            (info.nodeId :> [value |-> ScalarOf(info.dataType, 0),
                             dataType |-> "BaseDataType",
                             ctx |-> NoInfo, onRead |-> NULL, onWrite |-> NULL])
       /\ SetPc(T_OPC, "reg_lock")
       /\ UNCHANGED loc
  /\ UNCHANGED lifeVars
  /\ UNCHANGED dsVars
  /\ UNCHANGED << g_opcua_server, g_opcua_running, g_node_list, g_node_count,
                  nextId, image, bufferLock, opcua_mutex, wres, rd, cw, snaps,
                  pubd >>

\* addVariableNode, lines 376-441: UA_Server_addVariableNode with the declared
\* data type, scalar rank, read+write access and the zero of the type
AddVariableNode ==
  /\ pc[T_OPC] = "add_node"
  /\ LET info == loc[T_OPC].info IN
     IF info.variablePtr = NULL \/ info.dataType = NULL
        \/ info.nodeId \in DOMAIN srvNodes
     THEN /\ loc' = [loc EXCEPT ![T_OPC].line = @ + 1]
          /\ SetPc(T_OPC, "create_nodes")
          /\ UNCHANGED srvNodes
     ELSE /\ srvNodes' = srvNodes @@
               (info.nodeId :> [value |-> ScalarOf(info.dataType, 0),
                                dataType |-> info.dataType,
                                ctx |-> NoInfo, onRead |-> NULL,
                                onWrite |-> NULL])
          /\ SetPc(T_OPC, "reg_lock")
          /\ UNCHANGED loc
  /\ UNCHANGED lifeVars
  /\ UNCHANGED dsVars
  /\ UNCHANGED << g_opcua_server, g_opcua_running, g_node_list, g_node_count,
                  nextId, image, bufferLock, opcua_mutex, wres, rd, cw, snaps,
                  pubd >>

\* addVariableNode, line 448: pthread_mutex_lock(&opcua_mutex)
RegLock ==
  /\ pc[T_OPC] = "reg_lock"
  /\ opcua_mutex = NoThread
  /\ opcua_mutex' = T_OPC
  /\ SetPc(T_OPC, "reg_insert")
  /\ UNCHANGED lifeVars
  /\ UNCHANGED dsVars
  /\ UNCHANGED << g_opcua_server, g_opcua_running, g_node_list, g_node_count,
                  nextId, srvNodes, image, bufferLock, loc, wres, rd, cw,
                  snaps, pubd >>

\* addVariableNode, lines 449-452: push on g_node_list, unlock
RegInsert ==
  /\ pc[T_OPC] = "reg_insert"
  /\ g_node_list' = << loc[T_OPC].info >> \o g_node_list
  /\ g_node_count' = g_node_count + 1
  /\ opcua_mutex' = NoThread
  /\ SetPc(T_OPC, "set_ctx")
  /\ UNCHANGED lifeVars
  /\ UNCHANGED dsVars
  /\ UNCHANGED << g_opcua_server, g_opcua_running, nextId, srvNodes, image,
                  bufferLock, loc, wres, rd, cw, snaps, pubd >>

\* addVariableNode, line 459: UA_Server_setNodeContext(server, nodeId, nodeInfo)
SetNodeContext ==
  /\ pc[T_OPC] = "set_ctx"
  /\ srvNodes' = [srvNodes EXCEPT ![loc[T_OPC].info.nodeId].ctx = loc[T_OPC].info]
  /\ SetPc(T_OPC, "set_cb")
  /\ UNCHANGED lifeVars
  /\ UNCHANGED dsVars
  /\ UNCHANGED << g_opcua_server, g_opcua_running, g_node_list, g_node_count,
                  nextId, image, bufferLock, opcua_mutex, loc, wres, rd, cw,
                  snaps, pubd >>

\* a mutated callback registration whose onRead refreshes the node from the
\* live image before every read
SetValueCallback_LiveRead ==
  /\ pc[T_OPC] = "set_cb"
  /\ srvNodes' = [srvNodes EXCEPT ![loc[T_OPC].info.nodeId] =
                    [@ EXCEPT !.onRead = "refreshFromImage",
                              !.onWrite = "onVariableValueWrite"]]
  /\ loc' = [loc EXCEPT ![T_OPC].line = @ + 1]
  /\ SetPc(T_OPC, "create_nodes")
  /\ UNCHANGED lifeVars
  /\ UNCHANGED dsVars
  /\ UNCHANGED << g_opcua_server, g_opcua_running, g_node_list, g_node_count,
                  nextId, image, bufferLock, opcua_mutex, wres, rd, cw, snaps,
                  pubd >>

\* addVariableNode, lines 460-463: cb.onRead = NULL, cb.onWrite =
\* onVariableValueWrite
SetValueCallback ==
  /\ pc[T_OPC] = "set_cb"
  /\ srvNodes' = [srvNodes EXCEPT ![loc[T_OPC].info.nodeId] =
                    [@ EXCEPT !.onRead = NULL,
                              !.onWrite = "onVariableValueWrite"]]
  /\ loc' = [loc EXCEPT ![T_OPC].line = @ + 1]
  /\ SetPc(T_OPC, "create_nodes")
  /\ UNCHANGED lifeVars
  /\ UNCHANGED dsVars
  /\ UNCHANGED << g_opcua_server, g_opcua_running, g_node_list, g_node_count,
                  nextId, image, bufferLock, opcua_mutex, wres, rd, cw, snaps,
                  pubd >>

\* opcuaStartServer, line 1092: g_opcua_running = true
SetRunning ==
  /\ pc[T_OPC] = "set_running"
  /\ g_opcua_running' = TRUE
  /\ SetPc(T_OPC, "run_startup")
  /\ UNCHANGED lifeVars
  /\ UNCHANGED dsVars
  /\ UNCHANGED << g_opcua_server, g_node_list, g_node_count, nextId, srvNodes,
                  image, bufferLock, opcua_mutex, loc, wres, rd, cw, snaps,
                  pubd >>

\* opcuaStartServer, lines 1101-1112: UA_Server_run_startup returned Good
RunStartup ==
  /\ pc[T_OPC] = "run_startup"
  /\ SetPc(T_OPC, "run_loop")
  /\ UNCHANGED lifeVars
  /\ UNCHANGED dsVars
  /\ UNCHANGED << g_opcua_server, g_opcua_running, g_node_list, g_node_count,
                  nextId, srvNodes, image, bufferLock, opcua_mutex, loc, wres,
                  rd, cw, snaps, pubd >>

\* ------------------------------------------------- onVariableValueWrite()
\* lines 110-116: the early returns, then pthread_mutex_lock(&bufferLock)
CbEnter(t) ==
  /\ pc[t] = "cb_enter"
  /\ LET info == loc[t].info
         data == loc[t].data
         pass == /\ data.hasValue
                 /\ info.variablePtr # NULL /\ info.dataType # NULL
                 /\ data.scalar /\ data.type # NULL
                 /\ data.type = info.dataType
     IN IF pass
        THEN /\ bufferLock = NoThread
             /\ bufferLock' = t
             /\ SetPc(t, "cb_store")
        ELSE /\ SetPc(t, loc[t].ret)
             /\ UNCHANGED bufferLock
  /\ UNCHANGED lifeVars
  /\ UNCHANGED dsVars
  /\ UNCHANGED << g_opcua_server, g_opcua_running, g_node_list, g_node_count,
                  nextId, srvNodes, image, opcua_mutex, loc, wres, rd, cw,
                  snaps, pubd >>

\* lines 117-139: *(T*)info->variablePtr = *(const T*)data->value.data
CbStore(t) ==
  /\ pc[t] = "cb_store"
  /\ image' = IF loc[t].info.dataType \in UA_TYPES
              THEN [image EXCEPT ![loc[t].info.variablePtr] = loc[t].data.val]
              ELSE image
  /\ snaps' = SnapNext(image')
  /\ SetPc(t, "cb_unlock")
  /\ UNCHANGED lifeVars
  /\ UNCHANGED dsVars
  /\ UNCHANGED << g_opcua_server, g_opcua_running, g_node_list, g_node_count,
                  nextId, srvNodes, bufferLock, opcua_mutex, loc, wres, rd, cw,
                  pubd >>

\* line 140: pthread_mutex_unlock(&bufferLock), return into the stack
CbUnlock(t) ==
  /\ pc[t] = "cb_unlock"
  /\ bufferLock' = NoThread
  /\ SetPc(t, loc[t].ret)
  /\ UNCHANGED lifeVars
  /\ UNCHANGED dsVars
  /\ UNCHANGED << g_opcua_server, g_opcua_running, g_node_list, g_node_count,
                  nextId, srvNodes, image, opcua_mutex, loc, wres, rd, cw,
                  snaps, pubd >>

\* ------------------------------------------------------------ the scan engine
\* The PLC cycle refreshes inputs and commits outputs inside bufferLock.
ScanStore(slot, v) ==
  /\ pc[T_SCAN] = "scan_idle"
  /\ bufferLock = NoThread
  /\ image[slot] # v
  /\ image' = [image EXCEPT ![slot] = v]
  /\ UNCHANGED lifeVars
  /\ UNCHANGED dsVars
  /\ UNCHANGED << g_opcua_server, g_opcua_running, g_node_list, g_node_count,
                  nextId, srvNodes, bufferLock, opcua_mutex, pc, loc, wres, rd,
                  cw, snaps, pubd >>

\* the cycle calls opcuaUpdateNodeValues(), outside bufferLock
UpdCall ==
  /\ pc[T_SCAN] = "scan_idle"
  /\ SetPc(T_SCAN, "upd_check")
  /\ UNCHANGED lifeVars
  /\ UNCHANGED dsVars
  /\ UNCHANGED << g_opcua_server, g_opcua_running, g_node_list, g_node_count,
                  nextId, srvNodes, image, bufferLock, opcua_mutex, loc, wres,
                  rd, cw, snaps, pubd >>

\* -------------------------------------------------- opcuaUpdateNodeValues()
\* lines 485-491: return when there is no server or it is not running
UpdCheck ==
  /\ pc[T_SCAN] = "upd_check"
  /\ IF g_opcua_server = 0 \/ ~g_opcua_running
     THEN /\ SetPc(T_SCAN, "scan_idle")
          /\ UNCHANGED << snaps, pubd >>
     ELSE /\ SetPc(T_SCAN, "upd_lock")
          /\ snaps' = {image}
          /\ pubd' = [s \in Allocated |-> NoVal]
  /\ UNCHANGED lifeVars
  /\ UNCHANGED dsVars
  /\ UNCHANGED << g_opcua_server, g_opcua_running, g_node_list, g_node_count,
                  nextId, srvNodes, image, bufferLock, opcua_mutex, loc, wres,
                  rd, cw >>

\* line 493: pthread_mutex_lock(&opcua_mutex); line 508: it = g_node_list
UpdLock ==
  /\ pc[T_SCAN] = "upd_lock"
  /\ opcua_mutex = NoThread
  /\ opcua_mutex' = T_SCAN
  /\ loc' = [loc EXCEPT ![T_SCAN] = [NoLoc EXCEPT !.it = 1]]
  /\ SetPc(T_SCAN, "upd_read")
  /\ UNCHANGED lifeVars
  /\ UNCHANGED dsVars
  /\ UNCHANGED << g_opcua_server, g_opcua_running, g_node_list, g_node_count,
                  nextId, srvNodes, image, bufferLock, wres, rd, cw, snaps,
                  pubd >>

\* a mutated read that takes bufferLock for the copy and keeps it over the
\* node write
UpdRead_Locked ==
  /\ pc[T_SCAN] = "upd_read"
  /\ LET i == loc[T_SCAN].it IN
     IF i > Len(g_node_list)
     THEN /\ SetPc(T_SCAN, "upd_unlock")
          /\ UNCHANGED << loc, cw, bufferLock >>
     ELSE /\ bufferLock = NoThread
          /\ bufferLock' = T_SCAN
          /\ loc' = [loc EXCEPT ![T_SCAN].info = g_node_list[i],
                                 ![T_SCAN].data = ScalarOf(g_node_list[i].dataType,
                                                    image[g_node_list[i].variablePtr])]
          /\ cw' = cw
          /\ SetPc(T_SCAN, "upd_write")
  /\ UNCHANGED lifeVars
  /\ UNCHANGED dsVars
  /\ UNCHANGED << g_opcua_server, g_opcua_running, g_node_list, g_node_count,
                  nextId, srvNodes, image, opcua_mutex, wres, rd, snaps, pubd >>

\* lines 509-548: while (it != NULL): read the current value of the PLC
\* variable into a variant of the entry's type (no lock on the image)
UpdRead ==
  /\ pc[T_SCAN] = "upd_read"
  /\ LET i == loc[T_SCAN].it IN
     IF i > Len(g_node_list)
     THEN /\ SetPc(T_SCAN, "upd_unlock")
          /\ UNCHANGED << loc, cw, snaps, pubd >>
     ELSE LET e == g_node_list[i] IN
          IF e.variablePtr # NULL /\ e.dataType # NULL
          THEN /\ loc' = [loc EXCEPT ![T_SCAN].info = e,
                                      ![T_SCAN].data =
                                         ScalarOf(e.dataType, image[e.variablePtr])]
               /\ pubd' = [pubd EXCEPT ![e.variablePtr] = image[e.variablePtr]]
               /\ snaps' = {sn \in snaps : Agrees(sn, pubd')}
               /\ cw' = IF cw.node = e.nodeId
                        THEN CwNorm([cw EXCEPT !.pubRead = TRUE]) ELSE cw
               /\ SetPc(T_SCAN, "upd_write")
          ELSE /\ loc' = [loc EXCEPT ![T_SCAN].it = i + 1]
               /\ UNCHANGED << pc, cw, snaps, pubd >>
  /\ UNCHANGED lifeVars
  /\ UNCHANGED dsVars
  /\ UNCHANGED << g_opcua_server, g_opcua_running, g_node_list, g_node_count,
                  nextId, srvNodes, image, bufferLock, opcua_mutex, wres, rd >>

\* line 551: UA_Server_writeValue(g_opcua_server, it->nodeId, value).  The
\* stack stores the value in the node and then runs the node's onWrite
\* callback on the calling thread; line 561: it = it->next.
UpdWrite ==
  /\ pc[T_SCAN] = "upd_write"
  /\ LET e == loc[T_SCAN].info
         d == loc[T_SCAN].data
     IN IF e.nodeId \in DOMAIN srvNodes /\ StackTypeOk(srvNodes[e.nodeId], d)
        THEN /\ srvNodes' = [srvNodes EXCEPT ![e.nodeId].value = d]
             /\ cw' = IF cw.node = e.nodeId
                      THEN CwNorm([cw EXCEPT !.pubStored = TRUE]) ELSE cw
             /\ IF srvNodes[e.nodeId].onWrite # NULL
                THEN /\ loc' = [loc EXCEPT ![T_SCAN].it = @ + 1,
                                            ![T_SCAN].info = srvNodes[e.nodeId].ctx,
                                            ![T_SCAN].ret = "upd_read"]
                     /\ SetPc(T_SCAN, "cb_enter")
                ELSE /\ loc' = [loc EXCEPT ![T_SCAN].it = @ + 1]
                     /\ SetPc(T_SCAN, "upd_read")
        ELSE /\ loc' = [loc EXCEPT ![T_SCAN].it = @ + 1]
             /\ SetPc(T_SCAN, "upd_read")
             /\ UNCHANGED << srvNodes, cw >>
  /\ UNCHANGED lifeVars
  /\ UNCHANGED dsVars
  /\ UNCHANGED << g_opcua_server, g_opcua_running, g_node_list, g_node_count,
                  nextId, image, bufferLock, opcua_mutex, wres, rd, snaps,
                  pubd >>

\* line 563: pthread_mutex_unlock(&opcua_mutex)
UpdUnlock ==
  /\ pc[T_SCAN] = "upd_unlock"
  /\ opcua_mutex' = NoThread
  /\ loc' = [loc EXCEPT ![T_SCAN] = NoLoc]
  /\ snaps' = {}
  /\ pubd' = [s \in Allocated |-> NoVal]
  /\ SetPc(T_SCAN, "scan_idle")
  /\ UNCHANGED lifeVars
  /\ UNCHANGED dsVars
  /\ UNCHANGED << g_opcua_server, g_opcua_running, g_node_list, g_node_count,
                  nextId, srvNodes, image, bufferLock, wres, rd, cw >>

\* ------------------------------------- client requests served by the iterate
\* loop (opcuaStartServer, lines 1115-1118: UA_Server_run_iterate)
\* a Write request for node n with variant d arrives
RecvWrite(n, d) ==
  /\ pc[T_OPC] = "run_loop"
  /\ g_opcua_running
  /\ n \in DOMAIN srvNodes
  /\ loc' = [loc EXCEPT ![T_OPC] = [NoLoc EXCEPT !.node = n, !.data = d]]
  /\ wres' = NULL
  /\ rd' = NoRd
  /\ SetPc(T_OPC, "wr_check")
  /\ UNCHANGED lifeVars
  /\ UNCHANGED dsVars
  /\ UNCHANGED << g_opcua_server, g_opcua_running, g_node_list, g_node_count,
                  nextId, srvNodes, image, bufferLock, opcua_mutex, cw, snaps,
                  pubd >>

\* Write service: the stack checks the variant against the attributes the node
\* was declared with, stores it in the node and runs the node's onWrite
\* callback with the node context.
StackWrite ==
  /\ pc[T_OPC] = "wr_check"
  /\ LET n == loc[T_OPC].node
         d == loc[T_OPC].data
     IN IF StackTypeOk(srvNodes[n], d)
        THEN /\ srvNodes' = [srvNodes EXCEPT ![n].value = d]
             /\ cw' = [node |-> n, val |-> d.val, done |-> FALSE,
                       pubStored |-> FALSE, pubRead |-> FALSE]
             /\ loc' = [loc EXCEPT ![T_OPC].info = srvNodes[n].ctx,
                                   ![T_OPC].ret = "wr_done"]
             /\ SetPc(T_OPC, IF srvNodes[n].onWrite # NULL THEN "cb_enter"
                                                            ELSE "wr_done")
             /\ UNCHANGED wres
        ELSE /\ wres' = UA_STATUSCODE_BADTYPEMISMATCH
             /\ loc' = [loc EXCEPT ![T_OPC] = NoLoc]
             /\ SetPc(T_OPC, "run_loop")
             /\ UNCHANGED << srvNodes, cw >>
  /\ UNCHANGED lifeVars
  /\ UNCHANGED dsVars
  /\ UNCHANGED << g_opcua_server, g_opcua_running, g_node_list, g_node_count,
                  nextId, image, bufferLock, opcua_mutex, rd, snaps, pubd >>

\* the callback has returned into the stack; the Write is answered Good
WriteDone ==
  /\ pc[T_OPC] = "wr_done"
  /\ wres' = UA_STATUSCODE_GOOD
  /\ cw' = [cw EXCEPT !.done = TRUE, !.pubRead = FALSE]
  /\ loc' = [loc EXCEPT ![T_OPC] = NoLoc]
  /\ SetPc(T_OPC, "run_loop")
  /\ UNCHANGED lifeVars
  /\ UNCHANGED dsVars
  /\ UNCHANGED << g_opcua_server, g_opcua_running, g_node_list, g_node_count,
                  nextId, srvNodes, image, bufferLock, opcua_mutex, rd, snaps,
                  pubd >>

\* Read service on node n: with cb.onRead = NULL the stack answers with the
\* value stored in the node; an onRead hook runs before the value is taken.
ClientRead(n) ==
  /\ pc[T_OPC] = "run_loop"
  /\ g_opcua_running
  /\ n \in DOMAIN srvNodes
  /\ LET node == srvNodes[n]
         v == IF node.onRead = NULL THEN node.value
              ELSE ScalarOf(node.dataType, image[node.ctx.variablePtr])
     IN /\ rd' = [node |-> n, hasValue |-> v.hasValue, val |-> v.val]
        /\ srvNodes' = [srvNodes EXCEPT ![n].value = v]
  /\ wres' = NULL
  /\ UNCHANGED lifeVars
  /\ UNCHANGED dsVars
  /\ UNCHANGED << g_opcua_server, g_opcua_running, g_node_list, g_node_count,
                  nextId, image, bufferLock, opcua_mutex, pc, loc, cw, snaps,
                  pubd >>

\* ------------------------------------------------------------ specification
Next ==
  \/ StartServer
  \/ CreateNodesStep
  \/ AddVariableNode
  \/ RegLock
  \/ RegInsert
  \/ SetNodeContext
  \/ SetValueCallback
  \/ SetRunning
  \/ RunStartup
  \/ \E t \in Threads : CbEnter(t)
  \/ \E t \in Threads : CbStore(t)
  \/ \E t \in Threads : CbUnlock(t)
  \/ \E s \in Allocated, v \in Val : ScanStore(s, v)
  \/ UpdCall
  \/ UpdCheck
  \/ UpdLock
  \/ UpdRead
  \/ UpdWrite
  \/ UpdUnlock
  \/ \E n \in DOMAIN srvNodes, d \in ClientData : RecvWrite(n, d)
  \/ StackWrite
  \/ WriteDone
  \/ \E n \in DOMAIN srvNodes : ClientRead(n)

Spec == Init /\ [][Next]_vars

\* ------------------------------------------- the data-source write callback
\* writeVariableValue is driven directly: the node context is a binding or
\* NULL, the data value is any variant a caller can hand in.
DsBindings ==
  [variablePtr : {<<"Q", "X", 0, 1>>}, dataType : {"Boolean", "String"},
   shadowPtr : BOOLEAN]

DsData == ClientData \cup {NoData, ScalarOf("String", 0)}

InitDS ==
  /\ g_opcua_server = 0
  /\ g_opcua_running = FALSE
  /\ g_node_list = << >>
  /\ g_node_count = 0
  /\ nextId = FirstNodeId
  /\ srvNodes = << >>
  /\ image \in [Allocated -> {0}]
  /\ bufferLock = NoThread
  /\ opcua_mutex = NoThread
  /\ pc = [t \in Threads |-> IF t = T_SCAN THEN "scan_idle" ELSE "ds_idle"]
  /\ loc = [t \in Threads |-> NoLoc]
  /\ wres = NULL
  /\ rd = NoRd
  /\ cw = NoCw
  /\ snaps = {}
  /\ pubd = [s \in Allocated |-> NoVal]
  /\ binding \in DsBindings
  /\ shadow = 0
  /\ dsDid = {}
  /\ LifeInit
  /\ ParseIdle

liveVars == << g_opcua_server, g_opcua_running, g_node_list, g_node_count,
               nextId, srvNodes, opcua_mutex, rd, cw, snaps, pubd,
               p_man, p_dir, p_out, lineVars, tokVars, readVars >>

\* the stack (or a test driver) calls writeVariableValue(nodeContext, dataValue)
DsCallWrite(hasCtx, d) ==
  /\ pc[T_OPC] = "ds_idle"
  /\ loc' = [loc EXCEPT ![T_OPC] =
               [NoLoc EXCEPT !.info = IF hasCtx
                                      THEN [nodeId |-> 0,
                                            variablePtr |-> binding.variablePtr,
                                            dataType |-> binding.dataType]
                                      ELSE NoInfo,
                             !.data = d]]
  /\ wres' = NULL
  /\ dsDid' = {}
  /\ SetPc(T_OPC, "dsw_enter")
  /\ UNCHANGED << image, bufferLock, binding, shadow >>
  /\ UNCHANGED lifeVars
  /\ UNCHANGED liveVars

\* lines 293-298: BadInternalError without a context or a value, else
\* pthread_mutex_lock(&bufferLock)
DsWriteEnter ==
  /\ pc[T_OPC] = "dsw_enter"
  /\ IF loc[T_OPC].info = NoInfo \/ ~loc[T_OPC].data.hasValue
     THEN /\ wres' = UA_STATUSCODE_BADINTERNALERROR
          /\ SetPc(T_OPC, "ds_ret")
          /\ UNCHANGED bufferLock
     ELSE /\ bufferLock = NoThread
          /\ bufferLock' = T_OPC
          /\ SetPc(T_OPC, "dsw_validate")
          /\ UNCHANGED wres
  /\ UNCHANGED << image, loc, dsVars >>
  /\ UNCHANGED lifeVars
  /\ UNCHANGED liveVars

\* a mutated validation that returns BadTypeMismatch without the unlock
DsWriteValidate_NoUnlock ==
  /\ pc[T_OPC] = "dsw_validate"
  /\ LET d == loc[T_OPC].data IN
     IF ~d.scalar \/ d.type = NULL \/ d.type # loc[T_OPC].info.dataType
     THEN /\ wres' = UA_STATUSCODE_BADTYPEMISMATCH
          /\ SetPc(T_OPC, "ds_ret")
          /\ UNCHANGED bufferLock
     ELSE /\ SetPc(T_OPC, "dsw_store")
          /\ UNCHANGED << bufferLock, wres >>
  /\ UNCHANGED << image, loc, dsVars >>
  /\ UNCHANGED lifeVars
  /\ UNCHANGED liveVars

\* lines 309-316: a non-scalar, empty or differently typed variant is
\* answered BadTypeMismatch after the unlock
DsWriteValidate ==
  /\ pc[T_OPC] = "dsw_validate"
  /\ LET d == loc[T_OPC].data IN
     IF ~d.scalar \/ d.type = NULL \/ d.type # loc[T_OPC].info.dataType
     THEN /\ bufferLock' = NoThread
          /\ wres' = UA_STATUSCODE_BADTYPEMISMATCH
          /\ SetPc(T_OPC, "ds_ret")
     ELSE /\ SetPc(T_OPC, "dsw_store")
          /\ UNCHANGED << bufferLock, wres >>
  /\ UNCHANGED << image, loc, dsVars >>
  /\ UNCHANGED lifeVars
  /\ UNCHANGED liveVars

\* lines 319-366, first store of the branch: *binding->variablePtr = v; a
\* type outside the eleven branches unlocks and answers BadTypeMismatch
DsWriteStoreImage ==
  /\ pc[T_OPC] = "dsw_store"
  /\ IF loc[T_OPC].info.dataType \in UA_TYPES
     THEN /\ image' = [image EXCEPT ![loc[T_OPC].info.variablePtr] =
                                       loc[T_OPC].data.val]
          /\ dsDid' = dsDid \cup {"image"}
          /\ SetPc(T_OPC, "dsw_shadow")
          /\ UNCHANGED << bufferLock, wres >>
     ELSE /\ bufferLock' = NoThread
          /\ wres' = UA_STATUSCODE_BADTYPEMISMATCH
          /\ SetPc(T_OPC, "ds_ret")
          /\ UNCHANGED << image, dsDid >>
  /\ UNCHANGED << loc, binding, shadow >>
  /\ UNCHANGED lifeVars
  /\ UNCHANGED liveVars

\* a mutated second store that forgets the shadow cell
DsWriteStoreShadow_Skip ==
  /\ pc[T_OPC] = "dsw_shadow"
  /\ SetPc(T_OPC, "dsw_unlock")
  /\ UNCHANGED << image, bufferLock, loc, wres, dsVars >>
  /\ UNCHANGED lifeVars
  /\ UNCHANGED liveVars

\* second store of the branch: if (binding->shadowPtr) *binding->shadowPtr = v
DsWriteStoreShadow ==
  /\ pc[T_OPC] = "dsw_shadow"
  /\ IF binding.shadowPtr
     THEN /\ shadow' = loc[T_OPC].data.val
          /\ dsDid' = dsDid \cup {"shadow"}
     ELSE UNCHANGED << shadow, dsDid >>
  /\ SetPc(T_OPC, "dsw_unlock")
  /\ UNCHANGED << image, bufferLock, loc, wres, binding >>
  /\ UNCHANGED lifeVars
  /\ UNCHANGED liveVars

\* lines 368-370: pthread_mutex_unlock(&bufferLock); return Good
DsWriteUnlock ==
  /\ pc[T_OPC] = "dsw_unlock"
  /\ bufferLock' = NoThread
  /\ wres' = UA_STATUSCODE_GOOD
  /\ SetPc(T_OPC, "ds_ret")
  /\ UNCHANGED << image, loc, dsVars >>
  /\ UNCHANGED lifeVars
  /\ UNCHANGED liveVars

\* the caller has taken the status code
DsReturn ==
  /\ pc[T_OPC] = "ds_ret"
  /\ loc' = [loc EXCEPT ![T_OPC] = NoLoc]
  /\ dsDid' = {}
  /\ SetPc(T_OPC, "ds_idle")
  /\ UNCHANGED << image, bufferLock, wres, binding, shadow >>
  /\ UNCHANGED lifeVars
  /\ UNCHANGED liveVars

NextDS ==
  \/ \E c \in BOOLEAN, d \in DsData : DsCallWrite(c, d)
  \/ DsWriteEnter
  \/ DsWriteValidate
  \/ DsWriteStoreImage
  \/ DsWriteStoreShadow
  \/ DsWriteUnlock
  \/ DsReturn
  \/ \E s \in Allocated, v \in Val : ScanStore(s, v)

SpecDS == InitDS /\ [][NextDS]_vars

\* ===================================================================== claims
\* the registry entry of node n (g_node_list), as publish() finds it
Binding(n) ==
  CHOOSE e \in {g_node_list[i] : i \in DOMAIN g_node_list} : e.nodeId = n

\* a variant that is non-scalar, without a value, or of another type than the
\* binding's
Mismatch(d, n) == ~(d.hasValue /\ d.scalar /\ d.type = Binding(n).dataType)

\* program points at which the thread executes inside a call into the stack:
\* UA_Server_addVariableNode, UA_Server_setNodeContext,
\* UA_Server_setVariableNode_valueCallback, UA_Server_run_startup,
\* UA_Server_writeValue, and the Write service inside UA_Server_run_iterate
\* before and after it runs the node's callback
StackCallPcs ==
  {"add_node", "set_ctx", "set_cb", "run_startup", "upd_write", "wr_check",
   "wr_done"}

\* C1: a client write of v to a node followed by a client read of that node,
\* with no other write and no publish() store to the node in between,
\* returns v.
C1_WriteThenRead ==
  (rd.node # 0 /\ rd.node = cw.node /\ cw.done /\ ~cw.pubStored)
    => (rd.hasValue /\ rd.val = cw.val)

C1_Witness ==
  /\ rd.node # 0 /\ rd.node = cw.node /\ cw.done /\ ~cw.pubStored
  /\ cw.val = 1 /\ rd.val = 1

\* C2: at the return of a client write whose outcome is Good, the value the
\* node answers reads with (its cache) and the binding's image cell both
\* hold the written value.
C2_ShadowAndImageAfterWrite ==
  [][(pc[T_OPC] = "cb_unlock" /\ pc'[T_OPC] = "wr_done")
       => /\ srvNodes'[loc[T_OPC].node].value.val = loc[T_OPC].data.val
          /\ image'[loc[T_OPC].info.variablePtr] = loc[T_OPC].data.val]_vars

\* C3: a client write whose variant is non-scalar, empty or of another type
\* than the binding's is answered BadTypeMismatch and leaves the node values
\* and the image unchanged.
C3_MismatchRejected ==
  [][(/\ pc[T_OPC] = "wr_check"
      /\ pc'[T_OPC] # "wr_check"
      /\ Mismatch(loc[T_OPC].data, loc[T_OPC].node))
       => /\ wres' = UA_STATUSCODE_BADTYPEMISMATCH
          /\ srvNodes' = srvNodes
          /\ image' = image]_vars

C3_Witness ==
  /\ wres = UA_STATUSCODE_BADTYPEMISMATCH
  /\ pc[T_OPC] = "run_loop"
  /\ \E b \in Allocated : image[b] = 1

C5_ReadsReflectLaterWrite ==
  (rd.node # 0 /\ rd.node = cw.node /\ cw.done /\ ~cw.pubRead)
    => rd.val = cw.val

\* the node holds a client-written value that its image cell does not hold
\* yet: the write is applied to one of the two only
HalfApplied(n) ==
  /\ pc[T_OPC] \in {"cb_enter", "cb_store"}
  /\ loc[T_OPC].ret = "wr_done"
  /\ loc[T_OPC].node = n
  /\ srvNodes[n].value.val = loc[T_OPC].data.val
  /\ image[Binding(n).variablePtr] # loc[T_OPC].data.val

\* C6: publish() never copies the image cell of a binding while a client
\* write to that binding is half applied.
C6_NoHalfAppliedRead ==
  [][(pc[T_SCAN] = "upd_read" /\ pc'[T_SCAN] = "upd_write")
       => ~HalfApplied(loc'[T_SCAN].info.nodeId)]_vars

\* C7: when publish() has copied every binding, the copied values are
\* together the image as it stood at one instant of that publish().
C7_ConsistentSnapshot ==
  (pc[T_SCAN] = "upd_unlock" /\ g_node_list # << >>) => snaps # {}

C9_NoStackCallUnderBridgeLock ==
  \A t \in Threads : opcua_mutex = t => pc[t] \notin StackCallPcs

\* C10: no thread holds opcua_mutex and bufferLock at the same time.
C10_LocksNeverNested ==
  \A t \in Threads : ~(opcua_mutex = t /\ bufferLock = t)

\* =================================================================== lifecycle
\* opcuaStartServer(port) and stopOpcua() statement by statement, each on the
\* thread that calls it.
MaxInst == 2

scanVars == << image, bufferLock, opcua_mutex, pc, loc, wres, rd, cw, snaps,
               pubd >>

LSet(t, p) == lpc' = [lpc EXCEPT ![t] = p]

\* the start invocation of u has not yet got its instance from UA_Server_new
BeforeNew(u) ==
  \/ lpc[u] \in {"st_guard", "st_cleanup", "st_reset", "st_new"}
  \/ lpc[u] \in {"do_del", "do_null"} /\ after[u] = "st_reset"

\* the stack may fail while the failures so far are below MaxFaults
MaxFaults == 1
MayFail(ok) == ok \/ faults < MaxFaults
Fault(ok) == faults' = IF ok THEN faults ELSE faults + 1

\* a thread is created to run opcuaStartServer(port)
StartCall(t) ==
  /\ lpc[t] = "l_idle"
  /\ nextInst + Cardinality({u \in Starters : BeforeNew(u)}) <= MaxInst
  /\ LSet(t, "st_guard")
  /\ UNCHANGED << g_opcua_server, g_opcua_running, g_node_list, g_node_count,
                  nextId, srvNodes, g_namespace_index, using, mine, failed,
                  alive, nextInst, doubleDelete, after, faults >>
  /\ UNCHANGED << scanVars, dsVars >>

\* lines 1026-1030: if (g_opcua_running) return
StartGuard(t) ==
  /\ lpc[t] = "st_guard"
  /\ LSet(t, IF g_opcua_running THEN "l_idle" ELSE "st_cleanup")
  /\ UNCHANGED << g_opcua_server, g_opcua_running, g_node_list, g_node_count,
                  nextId, srvNodes, g_namespace_index, using, mine, failed,
                  alive, nextInst, doubleDelete, after, faults >>
  /\ UNCHANGED << scanVars, dsVars >>

\* lines 1036-1039: if (g_opcua_server != NULL) UA_Server_delete(...)
StartCleanup(t) ==
  /\ lpc[t] = "st_cleanup"
  /\ IF g_opcua_server # 0
     THEN /\ LSet(t, "do_del")
          /\ after' = [after EXCEPT ![t] = "st_reset"]
     ELSE /\ LSet(t, "st_reset")
          /\ UNCHANGED after
  /\ UNCHANGED << g_opcua_server, g_opcua_running, g_node_list, g_node_count,
                  nextId, srvNodes, g_namespace_index, using, mine, failed,
                  alive, nextInst, doubleDelete, faults >>
  /\ UNCHANGED << scanVars, dsVars >>

\* UA_Server_delete(g_opcua_server) (lines 1012, 1039, 1063, 1072, 1105, 1124)
DeleteServer(t) ==
  /\ lpc[t] = "do_del"
  /\ alive' = alive \ {g_opcua_server}
  /\ doubleDelete' = (doubleDelete
                        \/ (g_opcua_server # 0 /\ g_opcua_server \notin alive))
  /\ srvNodes' = << >>
  /\ LSet(t, "do_null")
  /\ UNCHANGED << g_opcua_server, g_opcua_running, g_node_list, g_node_count,
                  nextId, g_namespace_index, using, mine, failed, nextInst,
                  after, faults >>
  /\ UNCHANGED << scanVars, dsVars >>

\* g_opcua_server = NULL (lines 1013, 1040, 1064, 1073, 1106, 1125)
NullServer(t) ==
  /\ lpc[t] = "do_null"
  /\ g_opcua_server' = 0
  /\ LSet(t, after[t])
  /\ after' = [after EXCEPT ![t] = "l_idle"]
  /\ UNCHANGED << g_opcua_running, g_node_list, g_node_count, nextId, srvNodes,
                  g_namespace_index, using, mine, failed, alive, nextInst,
                  doubleDelete, faults >>
  /\ UNCHANGED << scanVars, dsVars >>

\* lines 1044-1045: g_opcua_running = false; g_namespace_index = 1
StartReset(t) ==
  /\ lpc[t] = "st_reset"
  /\ g_opcua_running' = FALSE
  /\ g_namespace_index' = 1
  /\ LSet(t, "st_new")
  /\ UNCHANGED << g_opcua_server, g_node_list, g_node_count, nextId, srvNodes,
                  using, mine, failed, alive, nextInst, doubleDelete, after,
                  faults >>
  /\ UNCHANGED << scanVars, dsVars >>

\* lines 1048-1053: g_opcua_server = UA_Server_new(); return if it is NULL
StartNew(t, ok) ==
  /\ lpc[t] = "st_new"
  /\ MayFail(ok)
  /\ Fault(ok)
  /\ IF ok
     THEN /\ g_opcua_server' = nextInst
          /\ alive' = alive \cup {nextInst}
          /\ nextInst' = nextInst + 1
          /\ mine' = [mine EXCEPT ![t] = nextInst]
          /\ srvNodes' = << >>
          /\ LSet(t, "st_config")
          /\ UNCHANGED failed
     ELSE /\ g_opcua_server' = 0
          /\ failed' = [failed EXCEPT ![t] = "new"]
          /\ LSet(t, "st_ret")
          /\ UNCHANGED << alive, nextInst, mine, srvNodes >>
  /\ UNCHANGED << g_opcua_running, g_node_list, g_node_count, nextId,
                  g_namespace_index, using, doubleDelete, after >>
  /\ UNCHANGED << scanVars, dsVars >>

\* a mutated configuration step that returns on failure without deleting the
\* instance
StartConfig_NoDelete(t, ok) ==
  /\ lpc[t] = "st_config"
  /\ MayFail(ok)
  /\ Fault(ok)
  /\ IF ok
     THEN /\ LSet(t, "st_ns")
          /\ UNCHANGED failed
     ELSE /\ failed' = [failed EXCEPT ![t] = "config"]
          /\ LSet(t, "st_ret")
  /\ UNCHANGED << g_opcua_server, g_opcua_running, g_node_list, g_node_count,
                  nextId, srvNodes, g_namespace_index, using, mine, alive,
                  nextInst, doubleDelete, after >>
  /\ UNCHANGED << scanVars, dsVars >>

\* lines 1059-1075: UA_Server_getConfig / UA_ServerConfig_setMinimal; on
\* failure delete the instance, clear the global and return
StartConfig(t, ok) ==
  /\ lpc[t] = "st_config"
  /\ MayFail(ok)
  /\ Fault(ok)
  /\ IF ok
     THEN /\ LSet(t, "st_ns")
          /\ UNCHANGED << failed, after >>
     ELSE /\ failed' = [failed EXCEPT ![t] = "config"]
          /\ after' = [after EXCEPT ![t] = "st_ret"]
          /\ LSet(t, "do_del")
  /\ UNCHANGED << g_opcua_server, g_opcua_running, g_node_list, g_node_count,
                  nextId, srvNodes, g_namespace_index, using, mine, alive,
                  nextInst, doubleDelete >>
  /\ UNCHANGED << scanVars, dsVars >>

\* line 1081, registerNamespace (569-581): g_namespace_index =
\* UA_Server_addNamespace(...); index 0 is logged and nothing else
StartNs(t, idx) ==
  /\ lpc[t] = "st_ns"
  /\ MayFail(idx # 0)
  /\ Fault(idx # 0)
  /\ g_namespace_index' = idx
  /\ failed' = [failed EXCEPT ![t] = IF idx = 0 THEN "ns" ELSE @]
  /\ LSet(t, "st_nodes")
  /\ UNCHANGED << g_opcua_server, g_opcua_running, g_node_list, g_node_count,
                  nextId, srvNodes, using, mine, alive, nextInst, doubleDelete,
                  after >>
  /\ UNCHANGED << scanVars, dsVars >>

\* the nodes of ns that the instance accepts (UA_Server_addVariableNode
\* returns Good): the instance is alive and has no node of that id yet
AddedNodes(ns) ==
  SelectSeq(ns, LAMBDA e : /\ g_opcua_server \in alive
                           /\ e.nodeId \notin DOMAIN srvNodes)

RECURSIVE Reverse(_)
Reverse(q) == IF q = << >> THEN << >> ELSE Reverse(Tail(q)) \o << Head(q) >>

\* OpcNodeInfo of a created node
InfoOf(e) ==
  [nodeId |-> e.nodeId, variablePtr |-> e.variablePtr, dataType |-> e.dataType]

\* a mutated node creation whose id counter starts again at 4000000 in
\* every start
StartNodes_ResetId(t) ==
  /\ lpc[t] = "st_nodes"
  /\ opcua_mutex = NoThread
  /\ LET asked == LocatedNodes(Manifest, 1, FirstNodeId)
         added == AddedNodes(asked)
     IN /\ nextId' = FirstNodeId + Len(asked)
        /\ g_node_list' = Reverse([i \in 1..Len(added) |-> InfoOf(added[i])])
                            \o g_node_list
        /\ g_node_count' = g_node_count + Len(added)
        /\ srvNodes' = [n \in DOMAIN srvNodes
                              \cup {added[i].nodeId : i \in 1..Len(added)} |->
                          IF n \in DOMAIN srvNodes THEN srvNodes[n]
                          ELSE LET e == CHOOSE x \in {added[i] : i \in 1..Len(added)} :
                                          x.nodeId = n
                               IN [value |-> ScalarOf(e.dataType, 0),
                                   dataType |-> e.dataType,
                                   ctx |-> InfoOf(e),
                                   onRead |-> NULL,
                                   onWrite |-> "onVariableValueWrite"]]
  /\ LSet(t, "st_setrun")
  /\ UNCHANGED << g_opcua_server, g_opcua_running, g_namespace_index, using,
                  mine, failed, alive, nextInst, doubleDelete, after, faults >>
  /\ UNCHANGED << scanVars, dsVars >>

\* line 1088, scanAndCreateNodes: createNodesFromLocatedVariables (896-977)
\* with addVariableNode (376-478) for every resolved line; each registration
\* is pushed on the head of g_node_list under opcua_mutex
StartNodes(t) ==
  /\ lpc[t] = "st_nodes"
  /\ opcua_mutex = NoThread
  /\ LET asked == LocatedNodes(Manifest, 1, nextId)
         added == AddedNodes(asked)
     IN /\ nextId' = nextId + Len(asked)
        /\ g_node_list' = Reverse([i \in 1..Len(added) |-> InfoOf(added[i])])
                            \o g_node_list
        /\ g_node_count' = g_node_count + Len(added)
        /\ srvNodes' = [n \in DOMAIN srvNodes
                              \cup {added[i].nodeId : i \in 1..Len(added)} |->
                          IF n \in DOMAIN srvNodes THEN srvNodes[n]
                          ELSE LET e == CHOOSE x \in {added[i] : i \in 1..Len(added)} :
                                          x.nodeId = n
                               IN [value |-> ScalarOf(e.dataType, 0),
                                   dataType |-> e.dataType,
                                   ctx |-> InfoOf(e),
                                   onRead |-> NULL,
                                   onWrite |-> "onVariableValueWrite"]]
  /\ LSet(t, "st_setrun")
  /\ UNCHANGED << g_opcua_server, g_opcua_running, g_namespace_index, using,
                  mine, failed, alive, nextInst, doubleDelete, after, faults >>
  /\ UNCHANGED << scanVars, dsVars >>

\* line 1092: g_opcua_running = true
StartSetRun(t) ==
  /\ lpc[t] = "st_setrun"
  /\ g_opcua_running' = TRUE
  /\ LSet(t, "st_startup")
  /\ UNCHANGED << g_opcua_server, g_node_list, g_node_count, nextId, srvNodes,
                  g_namespace_index, using, mine, failed, alive, nextInst,
                  doubleDelete, after, faults >>
  /\ UNCHANGED << scanVars, dsVars >>

\* lines 1101-1109: UA_Server_run_startup; on failure delete the instance,
\* clear the global and the flag, return
StartStartup(t, ok) ==
  /\ lpc[t] = "st_startup"
  /\ MayFail(ok)
  /\ Fault(ok)
  /\ IF ok
     THEN /\ LSet(t, "st_loop")
          /\ UNCHANGED << failed, after >>
     ELSE /\ failed' = [failed EXCEPT ![t] = "startup"]
          /\ after' = [after EXCEPT ![t] = "st_clear"]
          /\ LSet(t, "do_del")
  /\ UNCHANGED << g_opcua_server, g_opcua_running, g_node_list, g_node_count,
                  nextId, srvNodes, g_namespace_index, using, mine, alive,
                  nextInst, doubleDelete >>
  /\ UNCHANGED << scanVars, dsVars >>

\* line 1115: while (g_opcua_running); line 1116 enters
\* UA_Server_run_iterate(g_opcua_server, true); after the loop line 1124
StartLoop(t) ==
  /\ lpc[t] = "st_loop"
  /\ IF g_opcua_running
     THEN /\ using' = [using EXCEPT ![t] = g_opcua_server]
          /\ LSet(t, "st_iter")
          /\ UNCHANGED after
     ELSE /\ after' = [after EXCEPT ![t] = "st_clear"]
          /\ LSet(t, "do_del")
          /\ UNCHANGED using
  /\ UNCHANGED << g_opcua_server, g_opcua_running, g_node_list, g_node_count,
                  nextId, srvNodes, g_namespace_index, mine, failed, alive,
                  nextInst, doubleDelete, faults >>
  /\ UNCHANGED << scanVars, dsVars >>

\* lines 1116-1117: UA_Server_run_iterate returns; usleep(50000)
StartIter(t) ==
  /\ lpc[t] = "st_iter"
  /\ using' = [using EXCEPT ![t] = 0]
  /\ LSet(t, "st_loop")
  /\ UNCHANGED << g_opcua_server, g_opcua_running, g_node_list, g_node_count,
                  nextId, srvNodes, g_namespace_index, mine, failed, alive,
                  nextInst, doubleDelete, after, faults >>
  /\ UNCHANGED << scanVars, dsVars >>

\* lines 1107 and 1126: g_opcua_running = false
StartClear(t) ==
  /\ lpc[t] = "st_clear"
  /\ g_opcua_running' = FALSE
  /\ LSet(t, "st_ret")
  /\ UNCHANGED << g_opcua_server, g_node_list, g_node_count, nextId, srvNodes,
                  g_namespace_index, using, mine, failed, alive, nextInst,
                  doubleDelete, after, faults >>
  /\ UNCHANGED << scanVars, dsVars >>

\* opcuaStartServer returns; its thread ends
StartRet(t) ==
  /\ lpc[t] = "st_ret"
  /\ mine' = [mine EXCEPT ![t] = 0]
  /\ failed' = [failed EXCEPT ![t] = "none"]
  /\ LSet(t, "l_idle")
  /\ UNCHANGED << g_opcua_server, g_opcua_running, g_node_list, g_node_count,
                  nextId, srvNodes, g_namespace_index, using, alive, nextInst,
                  doubleDelete, after, faults >>
  /\ UNCHANGED << scanVars, dsVars >>

\* stopOpcua() is called
StopCall ==
  /\ lpc[T_CTL] = "l_idle"
  /\ LSet(T_CTL, "sp_check")
  /\ UNCHANGED << g_opcua_server, g_opcua_running, g_node_list, g_node_count,
                  nextId, srvNodes, g_namespace_index, using, mine, failed,
                  alive, nextInst, doubleDelete, after, faults >>
  /\ UNCHANGED << scanVars, dsVars >>

\* lines 1000-1003: if (g_opcua_running) g_opcua_running = false
StopCheck ==
  /\ lpc[T_CTL] = "sp_check"
  /\ IF g_opcua_running
     THEN /\ g_opcua_running' = FALSE
          /\ LSet(T_CTL, "sp_sleep")
     ELSE /\ LSet(T_CTL, "l_idle")
          /\ UNCHANGED g_opcua_running
  /\ UNCHANGED << g_opcua_server, g_node_list, g_node_count, nextId, srvNodes,
                  g_namespace_index, using, mine, failed, alive, nextInst,
                  doubleDelete, after, faults >>
  /\ UNCHANGED << scanVars, dsVars >>

\* line 1006: usleep(100000) is over
StopSleep ==
  /\ lpc[T_CTL] = "sp_sleep"
  /\ LSet(T_CTL, "sp_del")
  /\ UNCHANGED << g_opcua_server, g_opcua_running, g_node_list, g_node_count,
                  nextId, srvNodes, g_namespace_index, using, mine, failed,
                  alive, nextInst, doubleDelete, after, faults >>
  /\ UNCHANGED << scanVars, dsVars >>

\* lines 1009-1014: if (g_opcua_server != NULL) delete it and clear the global
StopDel ==
  /\ lpc[T_CTL] = "sp_del"
  /\ IF g_opcua_server # 0
     THEN /\ LSet(T_CTL, "do_del")
          /\ after' = [after EXCEPT ![T_CTL] = "l_idle"]
     ELSE /\ LSet(T_CTL, "l_idle")
          /\ UNCHANGED after
  /\ UNCHANGED << g_opcua_server, g_opcua_running, g_node_list, g_node_count,
                  nextId, srvNodes, g_namespace_index, using, mine, failed,
                  alive, nextInst, doubleDelete, faults >>
  /\ UNCHANGED << scanVars, dsVars >>

NextLife ==
  \/ \E t \in Starters : StartCall(t)
  \/ \E t \in Starters : StartGuard(t)
  \/ \E t \in Starters : StartCleanup(t)
  \/ \E t \in LifeThreads : DeleteServer(t)
  \/ \E t \in LifeThreads : NullServer(t)
  \/ \E t \in Starters : StartReset(t)
  \/ \E t \in Starters, ok \in BOOLEAN : StartNew(t, ok)
  \/ \E t \in Starters, ok \in BOOLEAN : StartConfig(t, ok)
  \/ \E t \in Starters, idx \in {0, 2} : StartNs(t, idx)
  \/ \E t \in Starters : StartNodes(t)
  \/ \E t \in Starters : StartSetRun(t)
  \/ \E t \in Starters, ok \in BOOLEAN : StartStartup(t, ok)
  \/ \E t \in Starters : StartLoop(t)
  \/ \E t \in Starters : StartIter(t)
  \/ \E t \in Starters : StartClear(t)
  \/ \E t \in Starters : StartRet(t)
  \/ StopCall
  \/ StopCheck
  \/ StopSleep
  \/ StopDel

SpecLife == Init /\ [][NextLife]_vars

\* no lifecycle thread other than t is inside opcuaStartServer or stopOpcua
Quiet(t) == \A u \in LifeThreads \ {t} : lpc[u] = "l_idle"

\* opcuaStartServer(port) invoked while no other start or stop is in progress
\* (stopOpcua may still be invoked at any time)
StartCallIdle(t) ==
  /\ Quiet(t)
  /\ StartCall(t)

NextLifeSeq ==
  \/ \E t \in Starters : StartCallIdle(t)
  \/ \E t \in Starters : StartGuard(t)
  \/ \E t \in Starters : StartCleanup(t)
  \/ \E t \in LifeThreads : DeleteServer(t)
  \/ \E t \in LifeThreads : NullServer(t)
  \/ \E t \in Starters : StartReset(t)
  \/ \E t \in Starters, ok \in BOOLEAN : StartNew(t, ok)
  \/ \E t \in Starters, ok \in BOOLEAN : StartConfig(t, ok)
  \/ \E t \in Starters, idx \in {0, 2} : StartNs(t, idx)
  \/ \E t \in Starters : StartNodes(t)
  \/ \E t \in Starters : StartSetRun(t)
  \/ \E t \in Starters, ok \in BOOLEAN : StartStartup(t, ok)
  \/ \E t \in Starters : StartLoop(t)
  \/ \E t \in Starters : StartIter(t)
  \/ \E t \in Starters : StartClear(t)
  \/ \E t \in Starters : StartRet(t)
  \/ StopCall
  \/ StopCheck
  \/ StopSleep
  \/ StopDel

SpecLifeSeq == Init /\ [][NextLifeSeq]_vars

\* ------------------------------------------- publish() during the lifecycle
\* line 551 reached while g_opcua_server designates a live instance
UpdWriteAlive ==
  /\ g_opcua_server \in alive
  /\ UpdWrite

\* line 551 reached while g_opcua_server is NULL or designates a deleted
\* instance: the behaviour of UA_Server_writeValue is undefined; it either
\* returns a bad status (the loop goes on) or the thread aborts
UpdWriteDeleted(abort) ==
  /\ pc[T_SCAN] = "upd_write"
  /\ g_opcua_server \notin alive
  /\ IF abort
     THEN /\ SetPc(T_SCAN, "scan_abort")
          /\ UNCHANGED loc
     ELSE /\ loc' = [loc EXCEPT ![T_SCAN].it = @ + 1]
          /\ SetPc(T_SCAN, "upd_read")
  /\ UNCHANGED lifeVars
  /\ UNCHANGED dsVars
  /\ UNCHANGED << g_opcua_server, g_opcua_running, g_node_list, g_node_count,
                  nextId, srvNodes, image, bufferLock, opcua_mutex, wres, rd,
                  cw, snaps, pubd >>

NextLifePub ==
  \/ NextLifeSeq
  \/ UpdCall
  \/ UpdCheck
  \/ UpdLock
  \/ UpdRead
  \/ UpdWriteAlive
  \/ \E abort \in BOOLEAN : UpdWriteDeleted(abort)
  \/ UpdUnlock
  \/ CbEnter(T_SCAN)
  \/ CbStore(T_SCAN)
  \/ CbUnlock(T_SCAN)

SpecLifePub == Init /\ [][NextLifePub]_vars

\* ------------------------------------------- stopOpcua() from two callers
\* stopOpcua() takes no lock and its test of g_opcua_running (line 1000) and
\* its assignment to it (line 1003) are separate statements with a log call
\* between them; here two threads call it, each statement is a step.
StopEnter(s) ==
  /\ lpc[s] = "l_idle"
  /\ LSet(s, "sp_test")
  /\ UNCHANGED << g_opcua_server, g_opcua_running, g_node_list, g_node_count,
                  nextId, srvNodes, g_namespace_index, using, mine, failed,
                  alive, nextInst, doubleDelete, after, faults >>
  /\ UNCHANGED << scanVars, dsVars >>

\* line 1000: if (g_opcua_running)
StopTest(s) ==
  /\ lpc[s] = "sp_test"
  /\ LSet(s, IF g_opcua_running THEN "sp_clear" ELSE "l_idle")
  /\ UNCHANGED << g_opcua_server, g_opcua_running, g_node_list, g_node_count,
                  nextId, srvNodes, g_namespace_index, using, mine, failed,
                  alive, nextInst, doubleDelete, after, faults >>
  /\ UNCHANGED << scanVars, dsVars >>

\* line 1003: g_opcua_running = false
StopClear(s) ==
  /\ lpc[s] = "sp_clear"
  /\ g_opcua_running' = FALSE
  /\ LSet(s, "sp_sleep")
  /\ UNCHANGED << g_opcua_server, g_node_list, g_node_count, nextId, srvNodes,
                  g_namespace_index, using, mine, failed, alive, nextInst,
                  doubleDelete, after, faults >>
  /\ UNCHANGED << scanVars, dsVars >>

\* line 1006: usleep(100000) is over
StopWake(s) ==
  /\ lpc[s] = "sp_sleep"
  /\ LSet(s, "sp_del")
  /\ UNCHANGED << g_opcua_server, g_opcua_running, g_node_list, g_node_count,
                  nextId, srvNodes, g_namespace_index, using, mine, failed,
                  alive, nextInst, doubleDelete, after, faults >>
  /\ UNCHANGED << scanVars, dsVars >>

\* lines 1009-1014: if (g_opcua_server != NULL) delete it and clear the global
StopForce(s) ==
  /\ lpc[s] = "sp_del"
  /\ IF g_opcua_server # 0
     THEN /\ LSet(s, "do_del")
          /\ after' = [after EXCEPT ![s] = "l_idle"]
     ELSE /\ LSet(s, "l_idle")
          /\ UNCHANGED after
  /\ UNCHANGED << g_opcua_server, g_opcua_running, g_node_list, g_node_count,
                  nextId, srvNodes, g_namespace_index, using, mine, failed,
                  alive, nextInst, doubleDelete, faults >>
  /\ UNCHANGED << scanVars, dsVars >>

NextStops ==
  \/ \E t \in Starters : StartCallIdle(t)
  \/ \E t \in Starters : StartGuard(t)
  \/ \E t \in Starters : StartCleanup(t)
  \/ \E t \in LifeThreads : DeleteServer(t)
  \/ \E t \in LifeThreads : NullServer(t)
  \/ \E t \in Starters : StartReset(t)
  \/ \E t \in Starters, ok \in BOOLEAN : StartNew(t, ok)
  \/ \E t \in Starters, ok \in BOOLEAN : StartConfig(t, ok)
  \/ \E t \in Starters, idx \in {0, 2} : StartNs(t, idx)
  \/ \E t \in Starters : StartNodes(t)
  \/ \E t \in Starters : StartSetRun(t)
  \/ \E t \in Starters, ok \in BOOLEAN : StartStartup(t, ok)
  \/ \E t \in Starters : StartLoop(t)
  \/ \E t \in Starters : StartIter(t)
  \/ \E t \in Starters : StartClear(t)
  \/ \E t \in Starters : StartRet(t)
  \/ \E s \in Stoppers : StopEnter(s)
  \/ \E s \in Stoppers : StopTest(s)
  \/ \E s \in Stoppers : StopClear(s)
  \/ \E s \in Stoppers : StopWake(s)
  \/ \E s \in Stoppers : StopForce(s)

SpecStops == Init /\ [][NextStops]_vars

\* ------------------------------------------- restart right after stopOpcua()
\* opcuaStartServer(port) invoked after the flag has been cleared and before
\* the thread of the previous start has left its loop
StartCallAfterStop(t) ==
  /\ ~g_opcua_running
  /\ \E u \in Starters \ {t} : lpc[u] \in {"st_loop", "st_iter"}
  /\ StartCall(t)

NextLifeRe ==
  \/ NextLifeSeq
  \/ \E t \in Starters : StartCallAfterStop(t)

\* the steps thread t takes inside opcuaStartServer once it has been created
StarterRun(t) ==
  \/ StartGuard(t)
  \/ StartCleanup(t)
  \/ DeleteServer(t)
  \/ NullServer(t)
  \/ StartReset(t)
  \/ \E ok \in BOOLEAN : StartNew(t, ok)
  \/ \E ok \in BOOLEAN : StartConfig(t, ok)
  \/ \E idx \in {0, 2} : StartNs(t, idx)
  \/ StartNodes(t)
  \/ StartSetRun(t)
  \/ \E ok \in BOOLEAN : StartStartup(t, ok)
  \/ StartLoop(t)
  \/ StartIter(t)
  \/ StartClear(t)
  \/ StartRet(t)

\* the steps of stopOpcua once it has been called
StopRun ==
  \/ StopCheck
  \/ StopSleep
  \/ StopDel
  \/ DeleteServer(T_CTL)
  \/ NullServer(T_CTL)

\* every thread that is inside opcuaStartServer or stopOpcua keeps being
\* scheduled; when the functions are called is left open
SpecLifeFair ==
  /\ Init
  /\ [][NextLifeRe]_vars
  /\ \A t \in Starters : WF_vars(StarterRun(t))
  /\ WF_vars(StopRun)

\* ------------------------- client writes and publish() during the lifecycle
\* a Write request for node n arrives while a thread is inside
\* UA_Server_run_iterate (line 1116) on the current instance
IterRecvWrite(n, d) ==
  /\ \E t \in Starters : lpc[t] = "st_iter" /\ using[t] = g_opcua_server
                           /\ using[t] \in alive
  /\ pc[T_OPC] \in {"opc_idle", "run_loop"}
  /\ n \in DOMAIN srvNodes
  /\ loc' = [loc EXCEPT ![T_OPC] = [NoLoc EXCEPT !.node = n, !.data = d]]
  /\ wres' = NULL
  /\ rd' = NoRd
  /\ SetPc(T_OPC, "wr_check")
  /\ UNCHANGED lifeVars
  /\ UNCHANGED dsVars
  /\ UNCHANGED << g_opcua_server, g_opcua_running, g_node_list, g_node_count,
                  nextId, srvNodes, image, bufferLock, opcua_mutex, cw, snaps,
                  pubd >>

\* the Write service runs on an instance that is still there
StackWriteAlive ==
  /\ pc[T_OPC] = "wr_check"
  /\ loc[T_OPC].node \in DOMAIN srvNodes
  /\ StackWrite

\* the instance was deleted (stopOpcua, lines 1012-1013) while the request was
\* being served: the behaviour of the stack is undefined; the request either
\* fails or the serving thread never leaves UA_Server_run_iterate
StackWriteDeleted(abort) ==
  /\ pc[T_OPC] = "wr_check"
  /\ loc[T_OPC].node \notin DOMAIN srvNodes
  /\ IF abort
     THEN /\ SetPc(T_OPC, "opc_abort")
          /\ UNCHANGED << loc, wres >>
     ELSE /\ wres' = UA_STATUSCODE_BADINTERNALERROR
          /\ loc' = [loc EXCEPT ![T_OPC] = NoLoc]
          /\ SetPc(T_OPC, "run_loop")
  /\ UNCHANGED lifeVars
  /\ UNCHANGED dsVars
  /\ UNCHANGED << g_opcua_server, g_opcua_running, g_node_list, g_node_count,
                  nextId, srvNodes, image, bufferLock, opcua_mutex, rd, cw,
                  snaps, pubd >>

\* lines 1116-1117: UA_Server_run_iterate returns once the request it was
\* serving is answered
StartIterServed(t) ==
  /\ pc[T_OPC] \in {"opc_idle", "run_loop"}
  /\ StartIter(t)

\* the thread every start of this lifecycle runs on (starts do not overlap)
T_SRV == "srvA"

\* the Write requests sent during the lifecycle: a matching scalar and a
\* scalar of another type
WrData == {ScalarOf("Boolean", 1), ScalarOf("UInt16", 1)}

\* every stack call of the start succeeds
NextLifeWr ==
  \/ \E t \in {T_SRV} : StartCallIdle(t)
  \/ \E t \in {T_SRV} : StartGuard(t)
  \/ \E t \in {T_SRV} : StartCleanup(t)
  \/ \E t \in LifeThreads : DeleteServer(t)
  \/ \E t \in LifeThreads : NullServer(t)
  \/ \E t \in {T_SRV} : StartReset(t)
  \/ \E t \in {T_SRV} : StartNew(t, TRUE)
  \/ \E t \in {T_SRV} : StartConfig(t, TRUE)
  \/ \E t \in {T_SRV} : StartNs(t, 2)
  \/ \E t \in {T_SRV} : StartNodes(t)
  \/ \E t \in {T_SRV} : StartSetRun(t)
  \/ \E t \in {T_SRV} : StartStartup(t, TRUE)
  \/ \E t \in {T_SRV} : StartLoop(t)
  \/ \E t \in {T_SRV} : StartIterServed(t)
  \/ \E t \in {T_SRV} : StartClear(t)
  \/ \E t \in {T_SRV} : StartRet(t)
  \/ StopCall
  \/ StopCheck
  \/ StopSleep
  \/ StopDel
  \/ UpdCall
  \/ UpdCheck
  \/ UpdLock
  \/ UpdRead
  \/ UpdWriteAlive
  \/ \E abort \in BOOLEAN : UpdWriteDeleted(abort)
  \/ UpdUnlock
  \/ \E n \in DOMAIN srvNodes, d \in WrData : IterRecvWrite(n, d)
  \/ StackWriteAlive
  \/ \E abort \in BOOLEAN : StackWriteDeleted(abort)
  \/ WriteDone
  \/ \E t \in Threads : CbEnter(t)
  \/ \E t \in Threads : CbStore(t)
  \/ \E t \in Threads : CbUnlock(t)

SpecLifeWr == Init /\ [][NextLifeWr]_vars

\* ------------------------------------------------------ the parser on its own
\* createNodesFromLocatedVariables is run on a manifest and a set of image
\* directories chosen at the start, once per server start; the static counter
\* nextId is kept from one pass to the next.
MaxLines == 2
MaxPass == 2

\* the records a manifest line is tokenised to: 4 to 6 tokens, a name with or
\* without the leading "__", a bit or a word of %I at index 5
ParseLines ==
  [marker : BOOLEAN, n : {4, 5, 6}, iec : {"UINT"},
   name : {<<"_", "_", "v">>, <<"v">>},
   area : {"I"}, typ : {"X", "W"}, idx1 : {5}, idx2 : {0}]

ParseSlots == { <<"I", "X", 5, 0>>, <<"I", "W", 5, -1>> }

ParseManifests == UNION { [1..k -> ParseLines] : k \in 1..MaxLines }

InitParse ==
  /\ g_opcua_server = 0
  /\ g_opcua_running = FALSE
  /\ g_node_list = << >>
  /\ g_node_count = 0
  /\ nextId = FirstNodeId
  /\ srvNodes = << >>
  /\ image \in [Allocated -> {0}]
  /\ bufferLock = NoThread
  /\ opcua_mutex = NoThread
  /\ pc = [t \in Threads |-> IF t = T_SCAN THEN "scan_idle" ELSE "opc_idle"]
  /\ loc = [t \in Threads |-> NoLoc]
  /\ wres = NULL
  /\ rd = NoRd
  /\ cw = NoCw
  /\ snaps = {}
  /\ pubd = [s \in Allocated |-> NoVal]
  /\ binding = NoBinding
  /\ shadow = 0
  /\ dsDid = {}
  /\ LifeInit
  /\ p_man \in ParseManifests
  /\ p_dir \in SUBSET ParseSlots
  /\ p_out = << >>
  /\ LineIdle
  /\ TokIdle
  /\ ReadIdle

\* a mutated pass that skips a variable an earlier pass has already bound
ParsePass_SkipBound ==
  /\ Len(p_out) < MaxPass
  /\ LET all   == LocatedNodesIn(p_dir, p_man, 1, nextId)
         nodes == SelectSeq(all, LAMBDA b : \A k \in DOMAIN p_out :
                                    \A j \in DOMAIN p_out[k] :
                                       p_out[k][j].variablePtr # b.variablePtr)
     IN /\ p_out' = Append(p_out, nodes)
        /\ nextId' = nextId + Len(nodes)
  /\ UNCHANGED << p_man, p_dir, binding, shadow, dsDid, lineVars, tokVars,
                  readVars >>
  /\ UNCHANGED << g_opcua_server, g_opcua_running, g_node_list, g_node_count,
                  srvNodes >>
  /\ UNCHANGED << scanVars, lifeVars >>

\* lines 925-969, one whole pass over the file: every line that passes the
\* filter and resolves is given the next node id
ParsePass ==
  /\ Len(p_out) < MaxPass
  /\ LET nodes == LocatedNodesIn(p_dir, p_man, 1, nextId)
     IN /\ p_out' = Append(p_out, nodes)
        /\ nextId' = nextId + Len(nodes)
  /\ UNCHANGED << p_man, p_dir, binding, shadow, dsDid, lineVars, tokVars,
                  readVars >>
  /\ UNCHANGED << g_opcua_server, g_opcua_running, g_node_list, g_node_count,
                  srvNodes >>
  /\ UNCHANGED << scanVars, lifeVars >>

NextParse == ParsePass

SpecParse == InitParse /\ [][NextParse]_vars

\* --------------------------------------------------- the resolver on its own
\* resolvePointerFromLocation is run on a location string (a sequence of
\* characters) chosen at the start.
DigitChars == <<"0", "1", "2", "3", "4", "5", "6", "7", "8", "9">>
IsDigit(c) == \E d \in DOMAIN DigitChars : DigitChars[d] = c
DigitVal(c) == (CHOOSE d \in DOMAIN DigitChars : DigitChars[d] = c) - 1

\* atoi: leading white space, an optional sign, then the digits up to the
\* first character that is not one (0 when there is none)
RECURSIVE AtoiDigits(_, _, _)
AtoiDigits(str, i, acc) ==
  IF i > Len(str) \/ ~IsDigit(str[i]) THEN acc
  ELSE AtoiDigits(str, i + 1, acc * 10 + DigitVal(str[i]))

RECURSIVE SkipSpace(_, _)
SkipSpace(str, i) ==
  IF i <= Len(str) /\ str[i] \in {" ", "\t"} THEN SkipSpace(str, i + 1) ELSE i

atoi(str) ==
  LET i == SkipSpace(str, 1)
  IN  IF i <= Len(str) /\ str[i] = "-" THEN 0 - AtoiDigits(str, i + 1, 0)
      ELSE IF i <= Len(str) /\ str[i] = "+" THEN AtoiDigits(str, i + 1, 0)
      ELSE AtoiDigits(str, i, 0)

\* snprintf("%d")
RECURSIVE FormatNat(_)
FormatNat(k) ==
  IF k < 10 THEN << DigitChars[k + 1] >>
  ELSE FormatNat(k \div 10) \o << DigitChars[(k % 10) + 1] >>

FormatInt(k) == IF k < 0 THEN <<"-">> \o FormatNat(0 - k) ELSE FormatNat(k)

\* lines 960-962: "%<area>X<idx1>.<idx2>" for width X, "%<area><typ><idx1>"
\* otherwise
ComposeLocation(area, typ, idx1, idx2) ==
  IF typ = "X"
  THEN <<"%", area, "X">> \o FormatInt(idx1) \o <<".">> \o FormatInt(idx2)
  ELSE <<"%", area, typ>> \o FormatInt(idx1)

\* strchr(rest, '.'): position of the first dot, 0 when there is none
FirstDot(str) ==
  IF \E i \in DOMAIN str : str[i] = "."
  THEN CHOOSE i \in DOMAIN str : str[i] = "." /\ \A j \in 1..(i - 1) : str[j] # "."
  ELSE 0

\* resolvePointerFromLocation, lines 724-891, on a string of at least three
\* characters
ResolveLocation(dir, location) ==
  LET fail == [ok |-> FALSE, ptr |-> NULL, type |-> NULL]
      area == location[2]
      type == location[3]
      rest == SubSeq(location, 4, Len(location))
      dot  == FirstDot(rest)
  IN  IF location[1] # "%" THEN fail
      ELSE IF type = "X"
      THEN IF dot = 0 THEN fail
           ELSE resolvePointerIn(dir, area, type, atoi(rest),
                                 atoi(SubSeq(rest, dot + 1, Len(rest))))
      ELSE resolvePointerIn(dir, area, type, atoi(rest), 0)

\* (area, width, index, bit) positions tried: every area and width glyph and
\* one that is none, the ends of the index and bit ranges and their
\* neighbours
TokAreas == {"I", "Q", "M", "Z"}
TokWidths == {"X", "B", "W", "D", "L", "R", "F", "Z"}
TokIndexes == {-1, 0, BUFFER_SIZE - 1, BUFFER_SIZE}
TokBits == {-1, 0, 7, 8}

TokTuples ==
  { tu \in TokAreas \X TokWidths \X TokIndexes \X TokBits :
      tu[2] # "X" => tu[4] = -1 }

\* the directories ladder.h declares: bool, byte, int, dint, lint, real and
\* lreal for inputs and outputs, int, dint, lint, real and lreal for memory
HasDirectory(area, typ) ==
  \/ area \in {"I", "Q"} /\ typ \in {"X", "B", "W", "D", "L", "R", "F"}
  \/ area = "M" /\ typ \in {"W", "D", "L", "R", "F"}

\* every cell a program can allocate at the positions tried
TokCells ==
  { tu \in TokTuples :
      /\ HasDirectory(tu[1], tu[2])
      /\ tu[3] >= 0 /\ tu[3] < BUFFER_SIZE
      /\ tu[2] = "X" => (tu[4] >= 0 /\ tu[4] < 8) }

TokDirs == { {}, TokCells, { tu \in TokCells : tu[3] = 0 } }

\* the strings tried: the composed location of every position, the same with
\* a ".3" appended (other widths) or with the bit or the dot and the bit cut
\* off (width X), and the same behind a "#"
Tokens ==
  LET canon == { ComposeLocation(tu[1], tu[2], tu[3], tu[4]) : tu \in TokTuples }
      dotted == { ComposeLocation(tu[1], tu[2], tu[3], tu[4]) \o <<".", "3">> :
                    tu \in { u \in TokTuples : u[2] # "X" } }
      nobit == { <<"%", tu[1], "X">> \o FormatInt(tu[3]) \o <<".">> :
                   tu \in { u \in TokTuples : u[2] = "X" } }
      nodot == { <<"%", tu[1], "X">> \o FormatInt(tu[3]) :
                   tu \in { u \in TokTuples : u[2] = "X" } }
      hash == { <<"#">> \o Tail(c) : c \in canon }
  IN  canon \cup dotted \cup nobit \cup nodot \cup hash

InitResolve ==
  /\ g_opcua_server = 0
  /\ g_opcua_running = FALSE
  /\ g_node_list = << >>
  /\ g_node_count = 0
  /\ nextId = FirstNodeId
  /\ srvNodes = << >>
  /\ image \in [Allocated -> {0}]
  /\ bufferLock = NoThread
  /\ opcua_mutex = NoThread
  /\ pc = [t \in Threads |-> IF t = T_SCAN THEN "scan_idle" ELSE "opc_idle"]
  /\ loc = [t \in Threads |-> NoLoc]
  /\ wres = NULL
  /\ rd = NoRd
  /\ cw = NoCw
  /\ snaps = {}
  /\ pubd = [s \in Allocated |-> NoVal]
  /\ binding = NoBinding
  /\ shadow = 0
  /\ dsDid = {}
  /\ LifeInit
  /\ p_man = << >>
  /\ p_dir \in TokDirs
  /\ p_out = << >>
  /\ LineIdle
  /\ q_loc \in Tokens
  /\ q_res = << >>
  /\ ReadIdle

\* resolvePointerFromLocation(q_loc, &ptr, &uaType)
ResolveCall ==
  /\ q_res = << >>
  /\ q_res' = << ResolveLocation(p_dir, q_loc) >>
  /\ UNCHANGED << q_loc, p_man, p_dir, p_out, binding, shadow, dsDid, lineVars,
                  readVars >>
  /\ UNCHANGED << g_opcua_server, g_opcua_running, g_node_list, g_node_count,
                  nextId, srvNodes >>
  /\ UNCHANGED << scanVars, lifeVars >>

NextResolve == ResolveCall

SpecResolve == InitResolve /\ [][NextResolve]_vars

\* ------------------------------------------------- the fgets loop on its own
\* createNodesFromLocatedVariables reads a file of two lines, one iteration
\* of its while loop at a time: a line chosen at the start, then the record
\* of a BOOL at %IX0.0.

\* the IEC types matiec declares at a width
IecTypes(typ) ==
  CASE typ = "X" -> {"BOOL"}
    [] typ = "B" -> {"SINT", "BYTE"}
    [] typ = "W" -> {"INT", "UINT"}
    [] typ = "D" -> {"DINT", "UDINT"}
    [] typ = "L" -> {"LINT", "ULINT"}
    [] typ = "R" -> {"REAL"}
    [] typ = "F" -> {"LREAL"}

ScanWidths == {"X", "B", "W", "D", "L", "R", "F"}

ScanLines ==
  { l \in [marker : BOOLEAN, n : {4, 5, 6},
           iec : UNION { IecTypes(w) : w \in ScanWidths },
           name : {<<"_", "_", "v">>},
           area : {"I", "Q", "M"}, typ : ScanWidths,
           idx1 : {-1, 0, BUFFER_SIZE}, idx2 : {0, 8}] :
      /\ l.iec \in IecTypes(l.typ)
      /\ l.n < 6 => l.idx2 = 0 }

LastLine ==
  [marker |-> TRUE, n |-> 6, iec |-> "BOOL",
   name |-> <<"_", "_", "I", "X", "0", "_", "0">>,
   area |-> "I", typ |-> "X", idx1 |-> 0, idx2 |-> 0]

\* the cells a program can allocate among those the lines name
ScanCells ==
  { <<l.area, l.typ, l.idx1, IF l.typ = "X" THEN l.idx2 ELSE -1>> :
      l \in { k \in ScanLines \cup {LastLine} :
                /\ HasDirectory(k.area, k.typ)
                /\ k.idx1 >= 0 /\ k.idx1 < BUFFER_SIZE
                /\ k.typ = "X" => k.idx2 < 8 } }

ScanDirs == { {}, ScanCells, ScanCells \ {<<"I", "X", 0, 0>>} }

InitLines ==
  /\ g_opcua_server = 0
  /\ g_opcua_running = FALSE
  /\ g_node_list = << >>
  /\ g_node_count = 0
  /\ nextId = FirstNodeId
  /\ srvNodes = << >>
  /\ image \in [Allocated -> {0}]
  /\ bufferLock = NoThread
  /\ opcua_mutex = NoThread
  /\ pc = [t \in Threads |-> IF t = T_SCAN THEN "scan_idle" ELSE "opc_idle"]
  /\ loc = [t \in Threads |-> NoLoc]
  /\ wres = NULL
  /\ rd = NoRd
  /\ cw = NoCw
  /\ snaps = {}
  /\ pubd = [s \in Allocated |-> NoVal]
  /\ binding = NoBinding
  /\ shadow = 0
  /\ dsDid = {}
  /\ LifeInit
  /\ p_man \in { << l, LastLine >> : l \in ScanLines }
  /\ p_dir \in ScanDirs
  /\ p_out = << << >> >>
  /\ p_i = 1
  /\ p_seen = 0
  /\ p_added = 0
  /\ TokIdle
  /\ ReadIdle

\* a mutated iteration that counts a line as seen only once it has been
\* tokenised to at least 6 fields
ReadLine_SeenLate ==
  /\ p_i >= 1
  /\ p_i <= Len(p_man)
  /\ LET l == p_man[p_i]
         r == ResolveLocation(p_dir,
                              ComposeLocation(l.area, l.typ, l.idx1, l.idx2))
     IN /\ p_seen' = IF LineAccepted(l) THEN p_seen + 1 ELSE p_seen
        /\ IF LineAccepted(l) /\ r.ok
           THEN /\ p_out' = << p_out[1] \o
                               << [nodeId |-> nextId, variablePtr |-> r.ptr,
                                   dataType |-> r.type,
                                   name |-> DispName(l.name)] >> >>
                /\ nextId' = nextId + 1
                /\ p_added' = p_added + 1
           ELSE UNCHANGED << p_out, nextId, p_added >>
  /\ p_i' = p_i + 1
  /\ UNCHANGED << p_man, p_dir, binding, shadow, dsDid, tokVars, readVars >>
  /\ UNCHANGED << g_opcua_server, g_opcua_running, g_node_list, g_node_count,
                  srvNodes >>
  /\ UNCHANGED << scanVars, lifeVars >>

\* a mutated iteration that leaves the loop at a line that does not resolve
ReadLine_Break ==
  /\ p_i >= 1
  /\ p_i <= Len(p_man)
  /\ LET l == p_man[p_i]
         r == ResolveLocation(p_dir,
                              ComposeLocation(l.area, l.typ, l.idx1, l.idx2))
     IN /\ p_seen' = IF l.marker THEN p_seen + 1 ELSE p_seen
        /\ IF LineAccepted(l) /\ r.ok
           THEN /\ p_out' = << p_out[1] \o
                               << [nodeId |-> nextId, variablePtr |-> r.ptr,
                                   dataType |-> r.type,
                                   name |-> DispName(l.name)] >> >>
                /\ nextId' = nextId + 1
                /\ p_added' = p_added + 1
           ELSE UNCHANGED << p_out, nextId, p_added >>
        /\ p_i' = IF LineAccepted(l) /\ ~r.ok THEN Len(p_man) + 1 ELSE p_i + 1
  /\ UNCHANGED << p_man, p_dir, binding, shadow, dsDid, tokVars, readVars >>
  /\ UNCHANGED << g_opcua_server, g_opcua_running, g_node_list, g_node_count,
                  srvNodes >>
  /\ UNCHANGED << scanVars, lifeVars >>

\* lines 922-969, one iteration of while (fgets(...)): the marker filter and
\* seen++, the tokens and `if (n < 6) continue`, the location string and the
\* resolver, then the node with the next id and added++
ReadLine ==
  /\ p_i >= 1
  /\ p_i <= Len(p_man)
  /\ LET l == p_man[p_i]
         r == ResolveLocation(p_dir,
                              ComposeLocation(l.area, l.typ, l.idx1, l.idx2))
     IN /\ p_seen' = IF l.marker THEN p_seen + 1 ELSE p_seen
        /\ IF LineAccepted(l) /\ r.ok
           THEN /\ p_out' = << p_out[1] \o
                               << [nodeId |-> nextId, variablePtr |-> r.ptr,
                                   dataType |-> r.type,
                                   name |-> DispName(l.name)] >> >>
                /\ nextId' = nextId + 1
                /\ p_added' = p_added + 1
           ELSE UNCHANGED << p_out, nextId, p_added >>
  /\ p_i' = p_i + 1
  /\ UNCHANGED << p_man, p_dir, binding, shadow, dsDid, tokVars, readVars >>
  /\ UNCHANGED << g_opcua_server, g_opcua_running, g_node_list, g_node_count,
                  srvNodes >>
  /\ UNCHANGED << scanVars, lifeVars >>

\* lines 970-976: fgets returned NULL; fclose(f); return added
EndOfFile ==
  /\ p_i = Len(p_man) + 1
  /\ p_i' = 0
  /\ UNCHANGED << p_seen, p_added, p_man, p_dir, p_out, binding, shadow, dsDid,
                  tokVars, readVars >>
  /\ UNCHANGED << g_opcua_server, g_opcua_running, g_node_list, g_node_count,
                  nextId, srvNodes >>
  /\ UNCHANGED << scanVars, lifeVars >>

NextLines ==
  \/ ReadLine
  \/ EndOfFile

SpecLines == InitLines /\ [][NextLines]_vars

\* -------------------------------------------- the data-source read callback
\* readVariableValue is driven directly by a caller of its own, next to the
\* thread that runs writeVariableValue: the node context is the binding or
\* NULL, *dataValue is a cleared UA_DataValue.
DsReadBindings ==
  [variablePtr : {<<"Q", "X", 0, 1>>},
   dataType : {"Boolean", "UInt16", "String", NULL},
   shadowPtr : BOOLEAN]

InitDSR ==
  /\ g_opcua_server = 0
  /\ g_opcua_running = FALSE
  /\ g_node_list = << >>
  /\ g_node_count = 0
  /\ nextId = FirstNodeId
  /\ srvNodes = << >>
  /\ image \in [Allocated -> {0}]
  /\ bufferLock = NoThread
  /\ opcua_mutex = NoThread
  /\ pc = [t \in Threads |-> IF t = T_SCAN THEN "scan_idle" ELSE "ds_idle"]
  /\ loc = [t \in Threads |-> NoLoc]
  /\ wres = NULL
  /\ rd = NoRd
  /\ cw = NoCw
  /\ snaps = {}
  /\ pubd = [s \in Allocated |-> NoVal]
  /\ binding \in DsReadBindings
  /\ shadow = 0
  /\ dsDid = {}
  /\ LifeInit
  /\ ParseIdle

\* everything readVariableValue has no access to
readFrame == << g_opcua_server, g_opcua_running, g_node_list, g_node_count,
                nextId, srvNodes, image, bufferLock, opcua_mutex, pc, loc,
                wres, rd, cw, snaps, pubd, binding, shadow, dsDid, p_man,
                p_dir, p_out, lineVars, tokVars >>

\* the caller invokes readVariableValue(nodeContext, dataValue)
DsCallRead(hasCtx) ==
  /\ r_pc = "dsr_idle"
  /\ r_ctx' = IF hasCtx THEN "binding" ELSE NULL
  /\ r_out' = NoOut
  /\ r_pc' = "dsr_check"
  /\ UNCHANGED readFrame
  /\ UNCHANGED lifeVars

\* a mutated entry that waits for bufferLock before it looks at the binding
DsReadCheck_Locked ==
  /\ r_pc = "dsr_check"
  /\ bufferLock = NoThread
  /\ IF r_ctx = NULL
     THEN /\ r_out' = [r_out EXCEPT !.ret = UA_STATUSCODE_BADINTERNALERROR]
          /\ r_pc' = "dsr_ret"
     ELSE IF binding.dataType = NULL \/ ~binding.shadowPtr
          THEN /\ r_out' = [r_out EXCEPT !.hasValue = FALSE,
                                         !.hasStatus = TRUE,
                                         !.status = UA_STATUSCODE_GOOD,
                                         !.ret = UA_STATUSCODE_GOOD]
               /\ r_pc' = "dsr_ret"
          ELSE /\ r_pc' = "dsr_copy"
               /\ UNCHANGED r_out
  /\ UNCHANGED r_ctx
  /\ UNCHANGED readFrame
  /\ UNCHANGED lifeVars

\* lines 215-233: BadInternalError without a node context; a binding without
\* a type or without a shadow cell is answered Good with no value
DsReadCheck ==
  /\ r_pc = "dsr_check"
  /\ IF r_ctx = NULL
     THEN /\ r_out' = [r_out EXCEPT !.ret = UA_STATUSCODE_BADINTERNALERROR]
          /\ r_pc' = "dsr_ret"
     ELSE IF binding.dataType = NULL \/ ~binding.shadowPtr
          THEN /\ r_out' = [r_out EXCEPT !.hasValue = FALSE,
                                         !.hasStatus = TRUE,
                                         !.status = UA_STATUSCODE_GOOD,
                                         !.ret = UA_STATUSCODE_GOOD]
               /\ r_pc' = "dsr_ret"
          ELSE /\ r_pc' = "dsr_copy"
               /\ UNCHANGED r_out
  /\ UNCHANGED r_ctx
  /\ UNCHANGED readFrame
  /\ UNCHANGED lifeVars

\* lines 235-277: the branch of the binding's type copies the shadow cell
\* into dataValue->value (copied says whether UA_Variant_setScalarCopy got
\* its memory); a type outside the eleven branches copies nothing.  Then
\* hasValue = false, status = Good, hasStatus = true, return Good.
DsReadCopy(copied) ==
  /\ r_pc = "dsr_copy"
  /\ r_out' = [hasValue |-> FALSE,
               hasStatus |-> TRUE,
               status |-> UA_STATUSCODE_GOOD,
               value |-> IF binding.dataType \in UA_TYPES /\ copied
                         THEN ScalarOf(binding.dataType, shadow)
                         ELSE r_out.value,
               ret |-> UA_STATUSCODE_GOOD]
  /\ r_pc' = "dsr_ret"
  /\ UNCHANGED r_ctx
  /\ UNCHANGED readFrame
  /\ UNCHANGED lifeVars

\* the caller has taken the status code and the data value
DsReadReturn ==
  /\ r_pc = "dsr_ret"
  /\ r_pc' = "dsr_idle"
  /\ UNCHANGED << r_ctx, r_out >>
  /\ UNCHANGED readFrame
  /\ UNCHANGED lifeVars

\* the steps of readVariableValue and of its caller
DsReadStep ==
  \/ \E c \in BOOLEAN : DsCallRead(c)
  \/ DsReadCheck
  \/ \E copied \in BOOLEAN : DsReadCopy(copied)
  \/ DsReadReturn

NextDSR ==
  \/ \E c \in BOOLEAN : DsCallRead(c)
  \/ DsReadCheck
  \/ \E copied \in BOOLEAN : DsReadCopy(copied)
  \/ DsReadReturn
  \/ \E c \in BOOLEAN, d \in DsData : DsCallWrite(c, d)
  \/ DsWriteEnter
  \/ DsWriteValidate
  \/ DsWriteStoreImage
  \/ DsWriteStoreShadow
  \/ DsWriteUnlock
  \/ DsReturn
  \/ \E s \in Allocated, v \in Val : ScanStore(s, v)

SpecDSR == InitDSR /\ [][NextDSR]_vars

\* --------------------------------------- one session, no other image writer
\* The running server with its publisher and one client session; the PLC
\* program stores nothing into the image (no ScanStore), so the image is
\* written by onVariableValueWrite only.
NextSes ==
  \/ StartServer
  \/ CreateNodesStep
  \/ AddVariableNode
  \/ RegLock
  \/ RegInsert
  \/ SetNodeContext
  \/ SetValueCallback
  \/ SetRunning
  \/ RunStartup
  \/ \E t \in Threads : CbEnter(t)
  \/ \E t \in Threads : CbStore(t)
  \/ \E t \in Threads : CbUnlock(t)
  \/ UpdCall
  \/ UpdCheck
  \/ UpdLock
  \/ UpdRead
  \/ UpdWrite
  \/ UpdUnlock
  \/ \E n \in DOMAIN srvNodes, d \in ClientData : RecvWrite(n, d)
  \/ StackWrite
  \/ WriteDone
  \/ \E n \in DOMAIN srvNodes : ClientRead(n)

SpecSes == Init /\ [][NextSes]_vars

\* ------------------------------------------- both write callbacks, driven
\* writeVariableValue runs on one caller and onVariableValueWrite on another,
\* each handed the binding or no context and any variant; the two contend
\* for bufferLock.
DsCallOnWrite(hasCtx, d) ==
  /\ pc[T_SCAN] = "scan_idle"
  /\ loc' = [loc EXCEPT ![T_SCAN] =
               [NoLoc EXCEPT !.info = IF hasCtx
                                      THEN [nodeId |-> 0,
                                            variablePtr |-> binding.variablePtr,
                                            dataType |-> binding.dataType]
                                      ELSE NoInfo,
                             !.data = d,
                             !.ret = "scan_idle"]]
  /\ SetPc(T_SCAN, "cb_enter")
  /\ UNCHANGED << image, bufferLock, wres, dsVars >>
  /\ UNCHANGED lifeVars
  /\ UNCHANGED liveVars

NextCb ==
  \/ \E c \in BOOLEAN, d \in DsData : DsCallWrite(c, d)
  \/ DsWriteEnter
  \/ DsWriteValidate
  \/ DsWriteStoreImage
  \/ DsWriteStoreShadow
  \/ DsWriteUnlock
  \/ DsReturn
  \/ \E c \in BOOLEAN, d \in DsData : DsCallOnWrite(c, d)
  \/ CbEnter(T_SCAN)
  \/ CbStore(T_SCAN)
  \/ CbUnlock(T_SCAN)

SpecCb == InitDS /\ [][NextCb]_vars

\* ------------------------------------------------------------ lifecycle state
\* the start invocation of t is past its guard and has neither entered the
\* iterate loop nor returned
InStartup(t) ==
  \/ lpc[t] \in {"st_cleanup", "st_reset", "st_new", "st_config", "st_ns",
                 "st_nodes", "st_setrun", "st_startup"}
  \/ lpc[t] \in {"do_del", "do_null"} /\ after[t] = "st_reset"
  \/ lpc[t] \in {"do_del", "do_null", "st_clear"}
       /\ failed[t] \in {"config", "startup"}

\* a thread is tearing an instance down, or an instance is still referenced
InTeardown ==
  \/ \E s \in Stoppers :
       lpc[s] \in {"sp_clear", "sp_sleep", "sp_del", "do_del", "do_null"}
  \/ \E t \in Starters :
       lpc[t] \in {"st_loop", "st_iter", "do_del", "do_null", "st_clear"}
  \/ g_opcua_server # 0

\* the state of the spec's lifecycle machine the globals and threads are in
LifeState ==
  IF \E t \in Starters : InStartup(t) THEN "STARTING"
  ELSE IF g_opcua_running THEN "RUNNING"
  ELSE IF InTeardown THEN "STOPPING"
  ELSE "IDLE"

\* C11: the lifecycle states follow (IDLE STARTING RUNNING STOPPING)*, so
\* STARTING is entered from IDLE and from no other state.
C11_LifecycleOrder ==
  [][(LifeState' = "STARTING" /\ LifeState # "STARTING")
       => LifeState = "IDLE"]_vars

\* C12: a start(port) whose guard is evaluated while the lifecycle is not
\* IDLE returns without doing anything.
C12_StartOnlyFromIdle ==
  [][\A t \in Starters :
       (lpc[t] = "st_guard" /\ lpc'[t] # "st_guard" /\ LifeState # "IDLE")
         => lpc'[t] = "l_idle"]_vars

\* C13: UA_Server_run_iterate never runs on an instance that has been deleted
\* (or on no instance), and no instance is deleted twice.
C13_DestroyAfterLoopExit ==
  /\ \A t \in Starters : lpc[t] = "st_iter" => using[t] \in alive
  /\ ~doubleDelete

\* number of bindings one pass over the manifest registers
ManifestBindings == Len(LocatedNodes(Manifest, 1, FirstNodeId))

\* C14: in a history without stack failures, whenever a started server is
\* in its iterate loop with no other start or stop in progress, the registry
\* holds as many bindings as one pass over the manifest creates, and each of
\* them is a node of the running instance.
C14_RestartSameBindings ==
  \A t \in Starters :
    (lpc[t] = "st_loop" /\ g_opcua_running /\ g_opcua_server \in alive
       /\ Quiet(t) /\ faults = 0)
      => /\ g_node_count = ManifestBindings
         /\ \A i \in DOMAIN g_node_list :
              g_node_list[i].nodeId \in DOMAIN srvNodes

\* C15: in a history without stack failures, when the lifecycle is IDLE the
\* registry of bindings is empty.
C15_NoBindingsWhenIdle ==
  (LifeState = "IDLE" /\ faults = 0) => g_node_list = << >>

\* C16: when a start invocation that began with no other start or stop in
\* progress returns after one of its steps failed, the instance it created is
\* deleted; and if no stop is in progress, the server global is NULL, the
\* running flag is false and the lifecycle is IDLE.
C16_FailedStartCleansUp ==
  \A t \in Starters :
    (lpc[t] = "st_ret" /\ failed[t] # "none")
      => /\ mine[t] \notin alive
         /\ Quiet(t) => /\ g_opcua_server = 0
                        /\ ~g_opcua_running
                        /\ LifeState = "IDLE"

C16_Witness ==
  \E t \in Starters :
    /\ lpc[t] = "st_ret"
    /\ failed[t] = "config"
    /\ mine[t] # 0
    /\ Quiet(t)

\* C17: a start invocation whose namespace registration returned index 0
\* creates no variable node, never sets the running flag and never enters
\* the iterate loop.
C17_NamespaceZeroFatal ==
  \A t \in Starters :
    failed[t] = "ns"
      => lpc[t] \notin {"st_setrun", "st_startup", "st_loop", "st_iter"}

\* C18: a publish() invoked while the server global designates no live
\* instance (the server is then not RUNNING) returns from its entry check.
C18_PublishOnlyWhenRunning ==
  [][(pc[T_SCAN] = "upd_check" /\ pc'[T_SCAN] # "upd_check"
        /\ g_opcua_server \notin alive)
       => pc'[T_SCAN] = "scan_idle"]_vars

\* what a binding is apart from its node id: browse name, declared type and
\* the (area, width, index, bit) key of its cell
BindingKeys(nodes) ==
  { << nodes[j].name, nodes[j].dataType, nodes[j].variablePtr >> :
      j \in DOMAIN nodes }

C20_FiveFieldAccepted ==
  Len(p_out) >= 1
    => \A i \in DOMAIN p_man :
         LET l == p_man[i]
             slot == << l.area, l.typ, l.idx1, -1 >>
         IN (l.marker /\ l.n >= 5 /\ l.typ # "X" /\ slot \in p_dir)
              => \E j \in DOMAIN p_out[1] :
                   /\ p_out[1][j].variablePtr = slot
                   /\ p_out[1][j].dataType = WidthType(l.typ)

C24_ResolverIff ==
  q_res # << >>
    => \A tu \in TokTuples :
         q_loc = ComposeLocation(tu[1], tu[2], tu[3], tu[4])
           => /\ q_res[1].ok <=> /\ HasDirectory(tu[1], tu[2])
                                 /\ tu[3] >= 0 /\ tu[3] < BUFFER_SIZE
                                 /\ tu[2] = "X" => (tu[4] >= 0 /\ tu[4] < 8)
                                 /\ tu \in p_dir
              /\ q_res[1].ok => q_res[1].ptr = tu

C24_Witness ==
  /\ q_res # << >>
  /\ q_res[1].ok
  /\ q_loc = ComposeLocation("M", "W", BUFFER_SIZE - 1, -1)

\* the cell a manifest record names
CellOf(l) == << l.area, l.typ, l.idx1, IF l.typ = "X" THEN l.idx2 ELSE -1 >>

\* the cells the bindings created so far point to
BoundCells == { p_out[1][j].variablePtr : j \in DOMAIN p_out[1] }

\* C21: when the pass over the manifest is over, the cells bound are exactly
\* the cells of the records that are well-formed (the marker, at least 5
\* fields, 6 for width X) and name an allocated cell.
C21_BindingsAreResolvable ==
  p_i = 0
    => BoundCells =
         { CellOf(p_man[k]) :
             k \in { i \in DOMAIN p_man :
                       /\ p_man[i].marker
                       /\ p_man[i].n >= 5
                       /\ p_man[i].typ = "X" => p_man[i].n >= 6
                       /\ CellOf(p_man[i]) \in p_dir } }

\* C22: reading a line without the marker changes neither seen nor added;
\* reading a line with the marker adds one to seen; reading a marker line of
\* 4 fields adds one to seen and leaves added unchanged.
C22_CountersFollowLines ==
  [][(p_i >= 1 /\ p_i' = p_i + 1)
       => LET l == p_man[p_i]
          IN /\ ~l.marker => (p_seen' = p_seen /\ p_added' = p_added)
             /\ l.marker => p_seen' = p_seen + 1
             /\ (l.marker /\ l.n = 4) => p_added' = p_added]_vars

C22_Witness ==
  /\ p_i = 2
  /\ p_man[1].marker
  /\ p_man[1].n = 4
  /\ p_seen = 1
  /\ p_added = 0

\* C25: when the pass is over, a first record in area M of width X or B has
\* no binding and the record behind it has been processed (bound when its
\* cell is allocated); a first record of 6 fields in area I or Q of any of
\* the seven widths, or in area M of width W, D, L, R or F, that names an
\* allocated cell has a binding.
C25_MemoryWidths ==
  p_i = 0
    => LET l == p_man[1]
       IN /\ (l.area = "M" /\ l.typ \in {"X", "B"})
               => /\ \A c \in BoundCells : ~(c[1] = "M" /\ c[2] = l.typ)
                  /\ CellOf(p_man[2]) \in p_dir
                       => CellOf(p_man[2]) \in BoundCells
          /\ (/\ l.marker /\ l.n = 6 /\ CellOf(l) \in p_dir
              /\ \/ l.area \in {"I", "Q"}
                 \/ l.area = "M" /\ l.typ \in {"W", "D", "L", "R", "F"})
               => CellOf(l) \in BoundCells

C25_Witness ==
  /\ p_i = 0
  /\ p_man[1].area = "M"
  /\ p_man[1].typ = "B"
  /\ p_man[1].marker
  /\ p_man[1].n = 6
  /\ BoundCells = { CellOf(p_man[2]) }

\* the scalar type of each width glyph
WidthTable ==
  [X |-> "Boolean", B |-> "Byte", W |-> "UInt16", D |-> "UInt32",
   L |-> "UInt64", R |-> "Float", F |-> "Double"]

IecTable ==
  [BOOL |-> "Boolean", BYTE |-> "Byte", SINT |-> "SByte", INT |-> "Int16",
   DINT |-> "Int32", LINT |-> "Int64", USINT |-> "Byte", UINT |-> "UInt16",
   UDINT |-> "UInt32", ULINT |-> "UInt64", WORD |-> "UInt16",
   DWORD |-> "UInt32", LWORD |-> "UInt64", REAL |-> "Float",
   LREAL |-> "Double"]

\* C27: the binding created for a record has the OPC UA type the mapping
\* table gives the record's IEC type.
C27_TypeFromIecType ==
  \A k \in DOMAIN p_man, j \in DOMAIN p_out[1] :
    (p_man[k].marker /\ p_man[k].n >= 6
       /\ p_out[1][j].variablePtr = CellOf(p_man[k]))
      => p_out[1][j].dataType = IecTable[p_man[k].iec]


\* C28: a read of a node whose binding has a type and a shadow cell returns
\* Good with a value: the data value is marked present and holds a scalar of
\* the binding's type equal to the shadow cell at the time of the copy.
C28_ReadReturnsShadow ==
  [][(r_pc = "dsr_copy" /\ r_pc' = "dsr_ret" /\ binding.dataType \in UA_TYPES)
       => /\ r_out'.ret = UA_STATUSCODE_GOOD
          /\ r_out'.hasValue
          /\ r_out'.value = ScalarOf(binding.dataType, shadow)]_vars

\* C29: a read that was handed no node context, or a binding without a type
\* or without a shadow cell, returns Good and marks the value absent.
C29_AbsentBindingGoodNoValue ==
  (r_pc = "dsr_ret" /\
   (r_ctx = NULL \/ binding.dataType = NULL \/ ~binding.shadowPtr))
    => (r_out.ret = UA_STATUSCODE_GOOD /\ ~r_out.hasValue)

\* C30: in every state the next step of the read callback is enabled, also
\* while another thread owns bufferLock, and a step of the read callback
\* leaves the process image, the shadow cell, both locks and the lifecycle
\* state as they were.
C30_ReadNeverBlocks ==
  /\ [](ENABLED DsReadStep)
  /\ [][(r_pc' # r_pc) =>
          UNCHANGED << image, shadow, bufferLock, opcua_mutex, g_opcua_server,
                       g_opcua_running, g_node_list, binding, lifeVars >>]_vars

\* a read has passed its checks and is about to copy the shadow cell while
\* writeVariableValue owns bufferLock between its two stores
C30_Witness ==
  /\ r_pc = "dsr_copy"
  /\ bufferLock = T_OPC
  /\ pc[T_OPC] = "dsw_shadow"
  /\ ENABLED (\E copied \in BOOLEAN : DsReadCopy(copied))

\* C31: the writes of the one session are applied in arrival order: with no
\* other writer of the cell, once the session's latest write has returned
\* Good and no further write is being served, the image cell and the value
\* the node answers reads with hold the value of that write (and not the
\* value of an earlier one, or the value the cell had before).
C31_SessionWritesInOrder ==
  (cw.node # 0 /\ cw.done /\ pc[T_OPC] = "run_loop")
    => /\ image[Binding(cw.node).variablePtr] = cw.val
       /\ srvNodes[cw.node].value.val = cw.val

\* C36: publish() never modifies the process image: the store the node's
\* write callback makes when the stack runs it for the publisher's
\* UA_Server_writeValue leaves every image cell with the value it had.
C36_PublishKeepsImage ==
  [][(pc[T_SCAN] = "cb_store" /\ pc'[T_SCAN] = "cb_unlock") => image' = image]_vars

\* program points of a thread between the lock and the unlock of a write
\* callback
InLockSection ==
  {"dsw_validate", "dsw_store", "dsw_shadow", "dsw_unlock", "cb_store",
   "cb_unlock"}

\* C40: a thread owns bufferLock only between the lock and the unlock of
\* the write callback it is executing, so after any callback has returned, on
\* whichever path, its thread does not hold bufferLock; and the lock is
\* released only by a step of its owner.
C40_CallbackReleasesLock ==
  /\ [](\A t \in Threads : bufferLock = t => pc[t] \in InLockSection)
  /\ [][\A t \in Threads :
          (bufferLock = t /\ bufferLock' # t)
            => (pc[t] \in {"dsw_validate", "dsw_store", "dsw_unlock",
                           "cb_unlock"}
                /\ pc'[t] \notin InLockSection /\ bufferLock' = NoThread)]_vars

\* writeVariableValue has returned through its last error branch (a variant
\* of the binding's type, which is none of the eleven types) while
\* onVariableValueWrite is inside its lock section
C40_Witness ==
  /\ pc[T_OPC] = "ds_ret"
  /\ wres = UA_STATUSCODE_BADTYPEMISMATCH
  /\ loc[T_OPC].data.hasValue /\ loc[T_OPC].data.scalar
  /\ loc[T_OPC].data.type = binding.dataType
  /\ binding.dataType \notin UA_TYPES
  /\ bufferLock = T_SCAN
  /\ pc[T_SCAN] = "cb_unlock"

\* C35: every binding ever registered (the registry is never emptied, and
\* its head is the latest binding) has a node id of at least 4000000 taken
\* from the counter, and a binding created later has a strictly larger id
\* than every binding created before it, across start/stop cycles.
C35_NodeIdsMonotonic ==
  /\ \A i \in DOMAIN g_node_list :
       /\ g_node_list[i].nodeId >= FirstNodeId
       /\ g_node_list[i].nodeId < nextId
  /\ \A i, j \in DOMAIN g_node_list :
       i < j => g_node_list[i].nodeId > g_node_list[j].nodeId

\* a second start has registered its bindings next to those of the first
C35_Witness ==
  /\ nextInst = 3
  /\ Len(g_node_list) = 2 * ManifestBindings
  /\ \E i, j \in DOMAIN g_node_list :
       /\ i < j
       /\ g_node_list[i].variablePtr = g_node_list[j].variablePtr
       /\ g_node_list[i].nodeId = g_node_list[j].nodeId + ManifestBindings

\* C39: the server is observable as running (the flag publish() and a
\* further start test is set) only after UA_Server_run_startup has returned
\* Good: while a start invocation has not yet got that answer, the flag is
\* false.
C39_RunningAfterStartup ==
  \A t \in Starters :
    (InStartup(t) /\ failed[t] = "none") => ~g_opcua_running

\* C38: in a history without stack failures, every UA_Server_writeValue
\* that publish() issues is given an instance that is alive at the moment of
\* the call, however publish() interleaves with stopOpcua() and with the
\* teardown at the end of opcuaStartServer.
C38_PublishOnLiveInstance ==
  [][(pc[T_SCAN] = "upd_write" /\ pc'[T_SCAN] # "upd_write" /\ faults = 0)
       => g_opcua_server \in alive]_vars

\* the thread that owns the lock t is blocked on, NoThread when t is not
\* waiting: onVariableValueWrite at its pthread_mutex_lock(&bufferLock),
\* publish() and addVariableNode at their pthread_mutex_lock(&opcua_mutex)
WaitsFor(t) ==
  IF t \in Threads /\ pc[t] = "cb_enter"
       /\ loc[t].data.hasValue /\ loc[t].data.scalar
       /\ loc[t].info.variablePtr # NULL /\ loc[t].info.dataType # NULL
       /\ loc[t].data.type = loc[t].info.dataType
  THEN bufferLock
  ELSE IF (t = T_SCAN /\ pc[t] = "upd_lock")
            \/ (t = T_OPC /\ pc[t] = "reg_lock")
            \/ (t \in Starters /\ lpc[t] = "st_nodes")
       THEN opcua_mutex
       ELSE NoThread

\* thread u has stopped for good inside a call it made while owning a lock
Stuck(u) == u = T_SCAN /\ pc[u] = "scan_abort"

PastTest(s) == lpc[s] \in {"sp_clear", "sp_sleep", "sp_del", "do_del", "do_null"}

\* C33: stop() is idempotent: a stop() that tests the flag while the server
\* is IDLE or STOPPING returns at once, and of two stop() calls that overlap
\* at most one goes on to clear the flag and destroy the instance.
C33_StopIdempotent ==
  /\ [](\A s \in Stoppers, u \in Stoppers : (PastTest(s) /\ PastTest(u)) => s = u)
  /\ [][\A s \in Stoppers :
          (lpc[s] = "sp_test" /\ lpc'[s] # "sp_test"
             /\ LifeState \in {"IDLE", "STOPPING"})
            => /\ lpc'[s] = "l_idle"
               /\ g_opcua_running' = g_opcua_running
               /\ g_opcua_server' = g_opcua_server
               /\ alive' = alive]_vars

\* C34: once stop() has cleared the flag, the thread that was in the iterate
\* loop leaves the loop and returns, whether or not a new start() follows.
C34_StopEndsLoop ==
  \A t \in Starters :
    (lpc[t] \in {"st_loop", "st_iter"} /\ ~g_opcua_running
       /\ lpc[T_CTL] = "sp_sleep")
      ~> (lpc[t] = "l_idle")

\* C32: for every binding in the registry the declared type is the type of
\* the image cell it points to and the type of the value its node holds, and
\* an entry of the registry never changes once it has been added.
C32_TypesAgree ==
  /\ [](\A i \in DOMAIN g_node_list :
          LET e == g_node_list[i]
          IN /\ e.variablePtr \in Allocated
             /\ e.dataType = WidthType(e.variablePtr[2])
             /\ e.nodeId \in DOMAIN srvNodes
                  => /\ srvNodes[e.nodeId].dataType = e.dataType
                     /\ srvNodes[e.nodeId].value.hasValue
                     /\ srvNodes[e.nodeId].value.scalar
                     /\ srvNodes[e.nodeId].value.type = e.dataType
                     /\ srvNodes[e.nodeId].ctx = e)
  /\ [][/\ Len(g_node_list') >= Len(g_node_list)
        /\ \A i \in DOMAIN g_node_list :
             g_node_list'[i + Len(g_node_list') - Len(g_node_list)]
               = g_node_list[i]]_vars

\* after a stop and a restart, a client write was refused for its type while
\* publish() is storing into a node of the second instance
C32_Witness ==
  /\ nextInst = 3
  /\ Len(g_node_list) = 2 * ManifestBindings
  /\ wres = UA_STATUSCODE_BADTYPEMISMATCH
  /\ cw.node \in DOMAIN srvNodes
  /\ pc[T_SCAN] = "cb_store"
  /\ g_opcua_server \in alive

====
